---- MODULE Spec2Model ----
(***************************************************************************)
(* A model of the ref-farming contract (Stolkerve/nft-farming):            *)
(* farm.rs (the farm, its accrual and lifecycle), farmer.rs (the farmer    *)
(* account), internals.rs (settlement and stake changes) and lib.rs (the   *)
(* entry points and the promise callbacks).                                *)
(*                                                                         *)
(* A panic aborts the whole call: the handler's result carries err # NoErr *)
(* and the action leaves the contract state as it was.                     *)
(***************************************************************************)
EXTENDS Integers, FiniteSets, Sequences, TLC

(***************************************************************************)
(* Bounds of the model.                                                    *)
(***************************************************************************)
\* DENOM is 10^24 in farm.rs; TLC's integers are 32 bits wide, so the model
\* keeps the power of ten and bounds its exponent.
DenomExp == 3
\* the clock runs over 0 .. MaxTime seconds
MaxTime == 2
\* farms ever created on the seed (next_index stays below it)
MaxFarms == 1
\* the most reward ever deposited into one farm
MaxReward == 3
\* the most stake one farmer holds
MaxStake == 1
\* promises (transfers awaiting their callback) in flight at once
MaxPending == 1
\* rps_count is a u32: a build without overflow checks wraps it below zero,
\* and -k stands for 2^32 - k; the model follows it down to -MaxWrap
MaxWrap == 1

Accounts == {"alice", "bob"}
SeedIds == {"seed"}
Tokens == {"t1"}
\* NFT token ids offered to the contract; "n3" has no entry in the table
NftTokens == {"n1", "n2", "n3"}
NftTable == [n \in {"n1", "n2"} |-> IF n = "n1" THEN 1 ELSE 2]
\* whose wallet each NFT comes from and goes back to
NftOwner == [n \in NftTokens |-> IF n = "n3" THEN "bob" ELSE "alice"]
StartAts == {0}
RewardsPerSession == {2}
SessionIntervals == {1}
RewardAmounts == {1, 2}
StakeAmounts == {1}
\* withdraw_reward's amount argument; 0 asks for the whole balance
WithdrawAmounts == {0}

FarmIds == SeedIds \X (0 .. MaxFarms)

VARIABLES
    seeds,          \* ContractData.seeds: SeedId -> FarmSeed
    farmers,        \* ContractData.farmers: AccountId -> Farmer (without user_rps)
    user_rps,       \* the Farmer.user_rps LookupMaps, which live in storage of their own
    farms,          \* ContractData.farms
    outdated_farms, \* ContractData.outdated_farms
    nft_balance_seeds, \* ContractData.nft_balance_seeds
    promises,       \* transfers in flight, each with the callback it resolves to
    now,            \* env::block_timestamp(), in seconds
    ever_staked     \* history: <<farmer, farm>> with the farmer's stake in the
                    \* farm's seed non-zero at some time while the farm existed

vars == <<seeds, farmers, user_rps, farms, outdated_farms, nft_balance_seeds,
          promises, now, ever_staked>>

(***************************************************************************)
(* Maps (HashMap, LookupMap, UnorderedMap): functions whose domain is the  *)
(* set of keys present.                                                    *)
(***************************************************************************)
EmptyMap == [k \in {} |-> 0]
Has(m, k) == k \in DOMAIN m
Put(m, k, v) == [x \in (DOMAIN m) \cup {k} |-> IF x = k THEN v ELSE m[x]]
Del(m, k) == [x \in (DOMAIN m) \ {k} |-> m[x]]
GetOr(m, k, d) == IF k \in DOMAIN m THEN m[k] ELSE d

NoErr == ""

DENOM == 10 ^ DenomExp

(***************************************************************************)
(* farm.rs                                                                 *)
(***************************************************************************)
DefaultDistribution == [undistributed |-> 0, unclaimed |-> 0, rps |-> 0, rr |-> 0]

FarmNew(id, terms) ==
    [farm_id |-> id, terms |-> terms, status |-> "Created",
     last_distribution |-> DefaultDistribution,
     amount_of_reward |-> 0, amount_of_claimed |-> 0, amount_of_beneficiary |-> 0]

\* fault: the reward is not divided among the seeds
new_rps_undivided(last_rps, reward_added, total_seeds) ==
    IF total_seeds = 0 THEN 0
    ELSE last_rps + reward_added * DENOM

\* fault: the reward per seed is rounded up
new_rps_rounded_up(last_rps, reward_added, total_seeds) ==
    IF total_seeds = 0 THEN 0
    ELSE last_rps + (reward_added * DENOM + total_seeds - 1) \div total_seeds

\* The rps of a new distribution. With no seed staked it is reset to 0.
new_rps(last_rps, reward_added, total_seeds) ==
    IF total_seeds = 0 THEN 0
    ELSE last_rps + (reward_added * DENOM) \div total_seeds

\* fault: a last session that is not whole is never paid
try_distribute_whole_sessions(farm, total_seeds, t) ==
    LET lastd == farm.last_distribution
        per_session == farm.terms.reward_per_session
        none == [err |-> NoErr, some |-> FALSE, dis |-> lastd]
        dist(reward_added, rr) ==
            [err |-> NoErr, some |-> TRUE,
             dis |-> [undistributed |-> lastd.undistributed - reward_added,
                      unclaimed |-> lastd.unclaimed + reward_added,
                      rps |-> new_rps(lastd.rps, reward_added, total_seeds),
                      rr |-> rr]]
        rounds(target, wanted) ==
            IF lastd.undistributed < wanted
            THEN dist((lastd.undistributed \div per_session) * per_session,
                      lastd.rr + lastd.undistributed \div per_session)
            ELSE dist(wanted, target)
        upto(target) ==
            IF target < lastd.rr
            THEN [none EXCEPT !.err = "attempt to subtract with overflow"]
            ELSE rounds(target, (target - lastd.rr) * per_session)
    IN  IF farm.status # "Running" THEN none
        ELSE IF t < farm.terms.start_at THEN none
        ELSE IF farm.terms.session_interval = 0
        THEN [none EXCEPT !.err = "attempt to divide by zero"]
        ELSE upto((t - farm.terms.start_at) \div farm.terms.session_interval)

\* Farm::try_distribute: [err, some, dis]
try_distribute(farm, total_seeds, t) ==
    LET lastd == farm.last_distribution
        per_session == farm.terms.reward_per_session
        none == [err |-> NoErr, some |-> FALSE, dis |-> lastd]
        \* the new distribution, of reward_added up to round rr
        dist(reward_added, rr) ==
            [err |-> NoErr, some |-> TRUE,
             dis |-> [undistributed |-> lastd.undistributed - reward_added,
                      unclaimed |-> lastd.unclaimed + reward_added,
                      rps |-> new_rps(lastd.rps, reward_added, total_seeds),
                      rr |-> rr]]
        \* all that is undistributed goes out, and rr is recalculated from it
        all_out(reward_added, increased_rr) ==
            dist(reward_added,
                 lastd.rr + increased_rr
                 + (IF increased_rr * per_session < reward_added THEN 1 ELSE 0))
        rounds(target, wanted) ==
            IF lastd.undistributed < wanted
            THEN all_out(lastd.undistributed, lastd.undistributed \div per_session)
            ELSE dist(wanted, target)
        upto(target) ==
            IF target < lastd.rr
            THEN [none EXCEPT !.err = "attempt to subtract with overflow"]
            ELSE rounds(target, (target - lastd.rr) * per_session)
    IN  IF farm.status # "Running" THEN none
        ELSE IF t < farm.terms.start_at THEN none
        ELSE IF farm.terms.session_interval = 0
        THEN [none EXCEPT !.err = "attempt to divide by zero"]
        ELSE upto((t - farm.terms.start_at) \div farm.terms.session_interval)

\* fault: the share is rounded up
unclaimed_of_rounded_up(user_seeds, rps, urps) ==
    IF rps < urps THEN [err |-> "arithmetic operation overflow", val |-> 0]
    ELSE [err |-> NoErr,
          val |-> (user_seeds * (rps - urps) + DENOM - 1) \div DENOM]

\* user_seeds * (rps - user_rps) / DENOM in U256, whose subtraction panics
\* on underflow: [err, val]
unclaimed_of(user_seeds, rps, urps) ==
    IF rps < urps THEN [err |-> "arithmetic operation overflow", val |-> 0]
    ELSE [err |-> NoErr, val |-> (user_seeds * (rps - urps)) \div DENOM]

\* fault: the view ignores the farmer's snapshot
view_farmer_unclaimed_reward_from_zero(farm, urps, user_seeds, total_seeds, t) ==
    LET with(td) ==
            IF td.err # NoErr THEN [err |-> td.err, val |-> 0]
            ELSE unclaimed_of(user_seeds,
                              IF td.some THEN td.dis.rps
                              ELSE farm.last_distribution.rps,
                              0)
    IN  IF total_seeds = 0 THEN [err |-> NoErr, val |-> 0]
        ELSE IF user_seeds = 0 THEN [err |-> NoErr, val |-> 0]
        ELSE with(try_distribute(farm, total_seeds, t))

\* Farm::view_farmer_unclaimed_reward: [err, val]
view_farmer_unclaimed_reward(farm, urps, user_seeds, total_seeds, t) ==
    LET with(td) ==
            IF td.err # NoErr THEN [err |-> td.err, val |-> 0]
            ELSE unclaimed_of(user_seeds,
                              IF td.some THEN td.dis.rps
                              ELSE farm.last_distribution.rps,
                              urps)
    IN  IF total_seeds = 0 THEN [err |-> NoErr, val |-> 0]
        ELSE IF user_seeds = 0 THEN [err |-> NoErr, val |-> 0]
        ELSE with(try_distribute(farm, total_seeds, t))

\* fault: the beneficiary is credited and the unclaimed reward stays
to_beneficiary_keeping_unclaimed(farm) ==
    [farm EXCEPT !.amount_of_claimed = @ + farm.last_distribution.unclaimed,
                 !.amount_of_beneficiary = @ + farm.last_distribution.unclaimed]

\* the reward of a commit made with no seed staked goes to the beneficiary
to_beneficiary(farm) ==
    [farm EXCEPT !.amount_of_claimed = @ + farm.last_distribution.unclaimed,
                 !.amount_of_beneficiary = @ + farm.last_distribution.unclaimed,
                 !.last_distribution.unclaimed = 0]

\* fault: a farm with nothing left undistributed stays as it is
end_if_empty_never(farm) == farm

\* a farm with nothing left to distribute has ended
end_if_empty(farm) ==
    IF farm.last_distribution.undistributed = 0
    THEN [farm EXCEPT !.status = "Ended"]
    ELSE farm

\* the commit of a new distribution
commit_distribution(farm, dis, total_seeds) ==
    IF farm.last_distribution.rr # dis.rr
    THEN IF total_seeds = 0
         THEN to_beneficiary([farm EXCEPT !.last_distribution = dis])
         ELSE [farm EXCEPT !.last_distribution = dis]
    ELSE farm

\* Farm::distribute: [err, farm]
distribute(farm, total_seeds, t) ==
    LET with(td) ==
            IF td.err # NoErr THEN [err |-> td.err, farm |-> farm]
            ELSE IF ~td.some THEN [err |-> NoErr, farm |-> farm]
            ELSE [err |-> NoErr,
                  farm |-> end_if_empty(commit_distribution(farm, td.dis, total_seeds))]
    IN  with(try_distribute(farm, total_seeds, t))

\* fault: a positive claim is taken from unclaimed and not counted as claimed
book_claim_uncounted(farm, claimed) ==
    [farm EXCEPT !.last_distribution.unclaimed = @ - claimed]

\* the bookkeeping of a positive claim, behind the ERR500 assertion
book_claim(farm, claimed) ==
    [farm EXCEPT !.last_distribution.unclaimed = @ - claimed,
                 !.amount_of_claimed = @ + claimed]

\* Farm::claim_user_reward: [err, farm, rps, claimed]
claim_user_reward(farm, urps, user_seeds, total_seeds, t) ==
    LET fail(e) == [err |-> e, farm |-> farm, rps |-> 0, claimed |-> 0]
        claim(f, u) ==
            IF u.err # NoErr THEN fail(u.err)
            ELSE IF u.val > 0 /\ f.last_distribution.unclaimed < u.val
            THEN fail("ERR500")
            ELSE [err |-> NoErr,
                  farm |-> IF u.val > 0 THEN book_claim(f, u.val) ELSE f,
                  rps |-> f.last_distribution.rps,
                  claimed |-> u.val]
        with(d) ==
            IF d.err # NoErr THEN fail(d.err)
            ELSE claim(d.farm,
                       unclaimed_of(user_seeds, d.farm.last_distribution.rps, urps))
    IN  with(distribute(farm, total_seeds, t))

\* Farm::move_to_clear: [err, farm, ret]
move_to_clear(farm, total_seeds, t) ==
    LET with(d) ==
            IF d.err # NoErr THEN [err |-> d.err, farm |-> farm, ret |-> FALSE]
            ELSE IF d.farm.status = "Ended"
            THEN [err |-> NoErr,
                  farm |-> [(IF d.farm.last_distribution.unclaimed > 0
                             THEN to_beneficiary(d.farm) ELSE d.farm)
                            EXCEPT !.status = "Cleared"],
                  ret |-> TRUE]
            ELSE [err |-> NoErr, farm |-> d.farm, ret |-> FALSE]
    IN  with(IF farm.status = "Running" THEN distribute(farm, total_seeds, t)
             ELSE [err |-> NoErr, farm |-> farm])

\* fault: only an ended farm can be removed
can_be_removed_ended_only(farm, total_seeds, t) ==
    [err |-> NoErr, val |-> farm.status = "Ended"]

\* Farm::can_be_removed: [err, val]
can_be_removed(farm, total_seeds, t) ==
    LET with(td) ==
            [err |-> td.err,
             val |-> td.err = NoErr /\ td.some /\ td.dis.undistributed = 0]
    IN  CASE farm.status = "Ended" -> [err |-> NoErr, val |-> TRUE]
          [] farm.status = "Running" -> with(try_distribute(farm, total_seeds, t))
          [] OTHER -> [err |-> NoErr, val |-> FALSE]

\* the reward is added to the farm
reward_added_to(farm, amount) ==
    [farm EXCEPT !.amount_of_reward = @ + amount,
                 !.last_distribution.undistributed = @ + amount]

\* fault: a running farm takes reward without a look at the accrual
add_reward_unchecked(farm, amount, t) ==
    LET none == [err |-> NoErr, farm |-> farm, some |-> FALSE, val |-> 0]
        added(f) == [err |-> NoErr, farm |-> f, some |-> TRUE,
                    val |-> f.last_distribution.undistributed]
    IN  CASE farm.status = "Created" ->
                added(reward_added_to(
                         [farm EXCEPT !.status = "Running",
                                      !.terms.start_at = IF @ = 0 THEN t ELSE @],
                         amount))
          [] farm.status = "Running" -> added(reward_added_to(farm, amount))
          [] OTHER -> none

\* fault: the first reward always sets start_at
add_reward_restarting(farm, amount, t) ==
    LET none == [err |-> NoErr, farm |-> farm, some |-> FALSE, val |-> 0]
        added(f) == [err |-> NoErr, farm |-> f, some |-> TRUE,
                    val |-> f.last_distribution.undistributed]
        with(td) ==
            IF td.err # NoErr THEN [none EXCEPT !.err = td.err]
            ELSE IF td.some /\ td.dis.undistributed = 0 THEN none
            ELSE added(reward_added_to(farm, amount))
    IN  CASE farm.status = "Created" ->
                added(reward_added_to(
                         [farm EXCEPT !.status = "Running", !.terms.start_at = t],
                         amount))
          [] farm.status = "Running" -> with(try_distribute(farm, DENOM, t))
          [] OTHER -> none

\* fault: reward added to an Ended farm sets it Running again
add_reward_reopening(farm, amount, t) ==
    LET none == [err |-> NoErr, farm |-> farm, some |-> FALSE, val |-> 0]
        added(f) == [err |-> NoErr, farm |-> f, some |-> TRUE,
                    val |-> f.last_distribution.undistributed]
        with(td) ==
            IF td.err # NoErr THEN [none EXCEPT !.err = td.err]
            ELSE IF td.some /\ td.dis.undistributed = 0 THEN none
            ELSE added(reward_added_to(farm, amount))
    IN  CASE farm.status \in {"Created", "Ended"} ->
                added(reward_added_to(
                         [farm EXCEPT !.status = "Running",
                                      !.terms.start_at = IF @ = 0 THEN t ELSE @],
                         amount))
          [] farm.status = "Running" -> with(try_distribute(farm, DENOM, t))
          [] OTHER -> none

\* Farm::add_reward: [err, farm, some, val]
add_reward(farm, amount, t) ==
    LET none == [err |-> NoErr, farm |-> farm, some |-> FALSE, val |-> 0]
        added(f) == [err |-> NoErr, farm |-> f, some |-> TRUE,
                    val |-> f.last_distribution.undistributed]
        with(td) ==
            IF td.err # NoErr THEN [none EXCEPT !.err = td.err]
            ELSE IF td.some /\ td.dis.undistributed = 0 THEN none
            ELSE added(reward_added_to(farm, amount))
    IN  CASE farm.status = "Created" ->
                added(reward_added_to(
                         [farm EXCEPT !.status = "Running",
                                      !.terms.start_at = IF @ = 0 THEN t ELSE @],
                         amount))
          [] farm.status = "Running" -> with(try_distribute(farm, DENOM, t))
          [] OTHER -> none
(***************************************************************************)
(* farmer.rs.  A Farmer is [rewards, seeds, rps_count, nft_seeds]; its     *)
(* user_rps LookupMap is written straight to storage, so it is kept apart  *)
(* from the record that farmers.insert saves.  rps_count is a u32: whether *)
(* an overflow panics or wraps is the build's choice (chk), and a wrapped  *)
(* count is kept as its representative modulo 2^32 nearest to 0.           *)
(***************************************************************************)
FarmerNew == [rewards |-> EmptyMap, seeds |-> EmptyMap, rps_count |-> 0,
              nft_seeds |-> EmptyMap]

\* fault: the claimed amount replaces the balance
farmer_add_reward_overwriting(farmer, token, amount) ==
    [farmer EXCEPT !.rewards = Put(@, token, amount)]

\* Farmer::add_reward
farmer_add_reward(farmer, token, amount) ==
    [farmer EXCEPT !.rewards = Put(@, token, GetOr(@, token, 0) + amount)]

\* Farmer::sub_reward: [err, farmer, amount]
sub_reward(farmer, token, amount) ==
    IF ~Has(farmer.rewards, token)
    THEN [err |-> "ERR21_TOKEN_NOT_REG", farmer |-> farmer, amount |-> 0]
    ELSE LET value == farmer.rewards[token]
         IN  IF value < amount
             THEN [err |-> "ERR22_NOT_ENOUGH_TOKENS", farmer |-> farmer, amount |-> 0]
             ELSE IF amount = 0
             THEN [err |-> NoErr, farmer |-> [farmer EXCEPT !.rewards = Del(@, token)],
                   amount |-> value]
             ELSE [err |-> NoErr,
                   farmer |-> [farmer EXCEPT !.rewards = Put(@, token, value - amount)],
                   amount |-> amount]

\* Farmer::add_seed
add_seed(farmer, seed_id, amount) ==
    IF amount > 0
    THEN [farmer EXCEPT !.seeds = Put(@, seed_id, amount + GetOr(@, seed_id, 0))]
    ELSE farmer

\* Farmer::sub_seed: [err, farmer, remain]
sub_seed(farmer, seed_id, amount) ==
    IF ~Has(farmer.seeds, seed_id)
    THEN [err |-> "ERR31_SEED_NOT_EXIST", farmer |-> farmer, remain |-> 0]
    ELSE LET prev_balance == farmer.seeds[seed_id]
             cur_balance == prev_balance - amount
         IN  IF prev_balance < amount
             THEN [err |-> "ERR32_NOT_ENOUGH_SEED", farmer |-> farmer, remain |-> 0]
             ELSE [err |-> NoErr,
                   farmer |-> [farmer EXCEPT !.seeds =
                                  IF cur_balance > 0 THEN Put(@, seed_id, cur_balance)
                                  ELSE Del(@, seed_id)],
                   remain |-> cur_balance]

\* Farmer::get_rps
get_rps(urps, farm_id) == GetOr(urps, farm_id, 0)

\* Farmer::set_rps: [farmer, urps]; a count below zero is a wrapped one, of a
\* build that wraps, and the increment wraps it back
set_rps(farmer, urps, farm_id, rps) ==
    [farmer |-> IF ~Has(urps, farm_id)
                THEN [farmer EXCEPT !.rps_count = @ + 1] ELSE farmer,
     urps |-> Put(urps, farm_id, rps)]

\* fault: the snapshot is counted out and stays in the map
remove_rps_keeping_entry(farmer, urps, farm_id, chk) ==
    IF ~Has(urps, farm_id) THEN [err |-> NoErr, farmer |-> farmer, urps |-> urps]
    ELSE IF farmer.rps_count = 0 /\ chk
    THEN [err |-> "attempt to subtract with overflow", farmer |-> farmer, urps |-> urps]
    ELSE [err |-> NoErr, farmer |-> [farmer EXCEPT !.rps_count = @ - 1],
          urps |-> urps]

\* Farmer::remove_rps: [err, farmer, urps]
remove_rps(farmer, urps, farm_id, chk) ==
    IF ~Has(urps, farm_id) THEN [err |-> NoErr, farmer |-> farmer, urps |-> urps]
    ELSE IF farmer.rps_count = 0 /\ chk
    THEN [err |-> "attempt to subtract with overflow", farmer |-> farmer, urps |-> urps]
    ELSE [err |-> NoErr, farmer |-> [farmer EXCEPT !.rps_count = @ - 1],
          urps |-> Del(urps, farm_id)]

\* Farmer::add_nft
add_nft(farmer, seed_id, nft) ==
    [farmer EXCEPT !.nft_seeds = Put(@, seed_id, GetOr(@, seed_id, {}) \cup {nft})]

\* Farmer::sub_nft: [some, farmer]
sub_nft(farmer, seed_id, nft) ==
    IF Has(farmer.nft_seeds, seed_id) /\ nft \in farmer.nft_seeds[seed_id]
    THEN [some |-> TRUE,
          farmer |-> [farmer EXCEPT !.nft_seeds[seed_id] = @ \ {nft}]]
    ELSE [some |-> FALSE, farmer |-> farmer]

(***************************************************************************)
(* utils.rs                                                                *)
(***************************************************************************)
\* a farm id "<seed>#<index>" is kept as the pair it is built from
gen_farm_id(seed_id, index) == <<seed_id, index>>
parse_farm_id(farm_id) == farm_id

\* get_nft_balance_equivalent: [some, val]; the NFT ids of the model carry no
\* series part, so the lookup is the table's first branch
get_nft_balance_equivalent(nft_balance, nft_staked) ==
    IF Has(nft_balance, nft_staked) THEN [some |-> TRUE, val |-> nft_balance[nft_staked]]
    ELSE [some |-> FALSE, val |-> 0]

(***************************************************************************)
(* farm_seed.rs is not among the sources: the seed aggregate is modelled   *)
(* from the specification's SeedAggregate and from its uses in             *)
(* internals.rs and lib.rs.                                                *)
(***************************************************************************)
FarmSeedNew(seed_id, is_nft) ==
    [seed_id |-> seed_id, seed_type |-> IF is_nft THEN "NFT" ELSE "FT",
     farms |-> {}, next_index |-> 0, amount |-> 0]

seed_add_amount(farm_seed, amount) == [farm_seed EXCEPT !.amount = @ + amount]

\* FarmSeed::sub_amount: [err, seed]
seed_sub_amount(farm_seed, amount) ==
    IF farm_seed.amount < amount
    THEN [err |-> "attempt to subtract with overflow", seed |-> farm_seed]
    ELSE [err |-> NoErr, seed |-> [farm_seed EXCEPT !.amount = @ - amount]]

(***************************************************************************)
(* The contract.  A handler takes the contract c: the stores, the promises *)
(* in flight, the clock (c.now) and the build's overflow checks (c.chk),   *)
(* and returns it changed, with c.err set when the call panicked.          *)
(***************************************************************************)
Contract(t, chk) ==
    [seeds |-> seeds, farmers |-> farmers, user_rps |-> user_rps, farms |-> farms,
     outdated_farms |-> outdated_farms, nft_balance_seeds |-> nft_balance_seeds,
     promises |-> promises, now |-> t, chk |-> chk, err |-> NoErr,
     \* what the call returns: a bool, a farm id or a seed type
     ret |-> FALSE, id |-> <<"", 0>>, seed_type |-> ""]

Panic(c, e) == [c EXCEPT !.err = e]

\* a transfer and the callback chained to it: key is the token or the seed
Promise(kind, key, sender, amount, nft) ==
    [kind |-> kind, key |-> key, sender |-> sender, amount |-> amount, nft |-> nft]

Schedule(c, p) ==
    [c EXCEPT !.promises = Put(@, p, GetOr(@, p, 0) + 1)]

RECURSIVE BagCount(_)
BagCount(b) ==
    IF DOMAIN b = {} THEN 0
    ELSE LET k == CHOOSE x \in DOMAIN b : TRUE IN b[k] + BagCount(Del(b, k))

Unschedule(b, p) == IF b[p] = 1 THEN Del(b, p) ELSE [b EXCEPT ![p] = @ - 1]

(***************************************************************************)
(* internals.rs                                                            *)
(***************************************************************************)
\* fault: the snapshot moves only when something was claimed
claim_user_reward_from_farm_lazy(farm, farmer, urps, total_seeds, t) ==
    LET credit(f, cl) ==
            IF cl.claimed > 0
            THEN farmer_add_reward(f, farm.terms.reward_token, cl.claimed)
            ELSE f
        snap(cl, sr) ==
            [err |-> NoErr, farm |-> cl.farm, farmer |-> credit(sr.farmer, cl),
             urps |-> sr.urps]
        with(cl) ==
            IF cl.err # NoErr
            THEN [err |-> cl.err, farm |-> farm, farmer |-> farmer, urps |-> urps]
            ELSE IF cl.claimed = 0
            THEN [err |-> NoErr, farm |-> cl.farm, farmer |-> farmer, urps |-> urps]
            ELSE snap(cl, set_rps(farmer, urps, farm.farm_id, cl.rps))
    IN  with(claim_user_reward(farm, get_rps(urps, farm.farm_id),
                               GetOr(farmer.seeds, farm.terms.seed_id, 0),
                               total_seeds, t))

\* claim_user_reward_from_farm: [err, farm, farmer, urps]
claim_user_reward_from_farm(farm, farmer, urps, total_seeds, t) ==
    LET credit(f, cl) ==
            IF cl.claimed > 0
            THEN farmer_add_reward(f, farm.terms.reward_token, cl.claimed)
            ELSE f
        snap(cl, sr) ==
            [err |-> NoErr, farm |-> cl.farm, farmer |-> credit(sr.farmer, cl),
             urps |-> sr.urps]
        with(cl) ==
            IF cl.err # NoErr
            THEN [err |-> cl.err, farm |-> farm, farmer |-> farmer, urps |-> urps]
            ELSE snap(cl, set_rps(farmer, urps, farm.farm_id, cl.rps))
    IN  with(claim_user_reward(farm, get_rps(urps, farm.farm_id),
                               GetOr(farmer.seeds, farm.terms.seed_id, 0),
                               total_seeds, t))

\* fault: the seed's next index stays as it is
internal_add_farm_same_index(c, terms, is_nft, nft_balance) ==
    LET fresh == ~Has(c.seeds, terms.seed_id)
        add(farm_seed, farm_id) ==
            [c EXCEPT !.nft_balance_seeds =
                          IF fresh /\ is_nft THEN Put(@, terms.seed_id, nft_balance)
                          ELSE @,
                      !.seeds = Put(@, terms.seed_id,
                                    [farm_seed EXCEPT !.farms = @ \cup {farm_id}]),
                      !.farms = Put(@, farm_id, FarmNew(farm_id, terms)),
                      !.id = farm_id]
        with(farm_seed) ==
            add(farm_seed, gen_farm_id(terms.seed_id, farm_seed.next_index))
    IN  with(IF fresh THEN FarmSeedNew(terms.seed_id, is_nft)
             ELSE c.seeds[terms.seed_id])

\* Contract::internal_add_farm: c, with c.id the new farm's id
internal_add_farm(c, terms, is_nft, nft_balance) ==
    LET fresh == ~Has(c.seeds, terms.seed_id)
        add(farm_seed, farm_id) ==
            [c EXCEPT !.nft_balance_seeds =
                          IF fresh /\ is_nft THEN Put(@, terms.seed_id, nft_balance)
                          ELSE @,
                      !.seeds = Put(@, terms.seed_id,
                                    [farm_seed EXCEPT !.farms = @ \cup {farm_id},
                                                      !.next_index = @ + 1]),
                      !.farms = Put(@, farm_id, FarmNew(farm_id, terms)),
                      !.id = farm_id]
        with(farm_seed) ==
            add(farm_seed, gen_farm_id(terms.seed_id, farm_seed.next_index))
    IN  with(IF fresh THEN FarmSeedNew(terms.seed_id, is_nft)
             ELSE c.seeds[terms.seed_id])

\* fault: the removed farm stays in its seed's farm set
internal_remove_farm_by_farm_id_left_in_seed(c, farm_id) ==
    LET seed_id == parse_farm_id(farm_id)[1]
        cleared(mc) ==
            IF mc.err # NoErr THEN Panic(c, mc.err)
            ELSE [c EXCEPT !.farms = Del(@, farm_id),
                           !.outdated_farms = Put(@, farm_id, mc.farm),
                           !.ret = TRUE]
        with(cbr) ==
            IF cbr.err # NoErr THEN Panic(c, cbr.err)
            ELSE IF ~cbr.val THEN c
            ELSE cleared(move_to_clear(c.farms[farm_id], c.seeds[seed_id].amount,
                                       c.now))
    IN  IF ~Has(c.seeds, seed_id) THEN c
        ELSE IF ~Has(c.farms, farm_id) THEN c
        ELSE with(can_be_removed(c.farms[farm_id], c.seeds[seed_id].amount, c.now))

\* Contract::internal_remove_farm_by_farm_id: c, with c.ret the result
internal_remove_farm_by_farm_id(c, farm_id) ==
    LET seed_id == parse_farm_id(farm_id)[1]
        cleared(mc) ==
            IF mc.err # NoErr THEN Panic(c, mc.err)
            ELSE [c EXCEPT !.farms = Del(@, farm_id),
                           !.outdated_farms = Put(@, farm_id, mc.farm),
                           !.seeds[seed_id].farms = @ \ {farm_id},
                           !.ret = TRUE]
        with(cbr) ==
            IF cbr.err # NoErr THEN Panic(c, cbr.err)
            ELSE IF ~cbr.val THEN c
            ELSE cleared(move_to_clear(c.farms[farm_id], c.seeds[seed_id].amount,
                                       c.now))
    IN  IF ~Has(c.seeds, seed_id) THEN c
        ELSE IF ~Has(c.farms, farm_id) THEN c
        ELSE with(can_be_removed(c.farms[farm_id], c.seeds[seed_id].amount, c.now))

\* the loop of internal_claim_user_reward_by_seed_id over the seed's farms:
\* [c, farmer], the farms saved as they are claimed, the farmer held in memory
RECURSIVE claim_farms(_, _, _, _, _)
claim_farms(c, farmer, sender_id, amount, farm_ids) ==
    LET with(farm_id, r) ==
            IF r.err # NoErr THEN [c |-> Panic(c, r.err), farmer |-> farmer]
            ELSE claim_farms([c EXCEPT !.farms = Put(@, farm_id, r.farm),
                                       !.user_rps[sender_id] = r.urps],
                             r.farmer, sender_id, amount, farm_ids \ {farm_id})
        next(farm_id) ==
            with(farm_id,
                 claim_user_reward_from_farm(c.farms[farm_id], farmer,
                     c.user_rps[sender_id], amount, c.now))
    IN  IF farm_ids = {} THEN [c |-> c, farmer |-> farmer]
        ELSE next(CHOOSE x \in farm_ids : TRUE)

\* Contract::internal_claim_user_reward_by_seed_id
internal_claim_user_reward_by_seed_id(c, sender_id, seed_id) ==
    LET with(r) ==
            IF r.c.err # NoErr THEN Panic(c, r.c.err)
            ELSE [r.c EXCEPT !.farmers = Put(@, sender_id, r.farmer)]
    IN  IF ~Has(c.farmers, sender_id) THEN Panic(c, "ERR10_ACC_NOT_REGISTERED")
        ELSE IF ~Has(c.seeds, seed_id) THEN c
        ELSE with(claim_farms(c, c.farmers[sender_id], sender_id,
                              c.seeds[seed_id].amount, c.seeds[seed_id].farms))

\* fault: an account that is not registered is settled as a new farmer
internal_claim_user_reward_by_farm_id_unregistered(c, sender_id, farm_id) ==
    LET seed_id == parse_farm_id(farm_id)[1]
        with(r) ==
            IF r.err # NoErr THEN Panic(c, r.err)
            ELSE [c EXCEPT !.farms = Put(@, farm_id, r.farm),
                           !.farmers = Put(@, sender_id, r.farmer),
                           !.user_rps[sender_id] = r.urps]
    IN  IF ~Has(c.seeds, seed_id) \/ ~Has(c.farms, farm_id) THEN c
        ELSE with(claim_user_reward_from_farm(c.farms[farm_id],
                      GetOr(c.farmers, sender_id, FarmerNew), c.user_rps[sender_id],
                      c.seeds[seed_id].amount, c.now))

\* Contract::internal_claim_user_reward_by_farm_id
internal_claim_user_reward_by_farm_id(c, sender_id, farm_id) ==
    LET seed_id == parse_farm_id(farm_id)[1]
        with(r) ==
            IF r.err # NoErr THEN Panic(c, r.err)
            ELSE [c EXCEPT !.farms = Put(@, farm_id, r.farm),
                           !.farmers = Put(@, sender_id, r.farmer),
                           !.user_rps[sender_id] = r.urps]
    IN  IF ~Has(c.farmers, sender_id) THEN Panic(c, "ERR10_ACC_NOT_REGISTERED")
        ELSE IF ~Has(c.seeds, seed_id) \/ ~Has(c.farms, farm_id) THEN c
        ELSE with(claim_user_reward_from_farm(c.farms[farm_id],
                      c.farmers[sender_id], c.user_rps[sender_id],
                      c.seeds[seed_id].amount, c.now))

(***************************************************************************)
(* lib.rs: the withdrawal of claimed reward                                *)
(***************************************************************************)
\* Contract::internal_execute_withdraw_reward; amount 0 stands for None
internal_execute_withdraw_reward(c, token_id, sender_id, amount) ==
    LET with(sr) ==
            IF sr.err # NoErr THEN Panic(c, sr.err)
            ELSE Schedule([c EXCEPT !.farmers = Put(@, sender_id, sr.farmer)],
                          Promise("reward", token_id, sender_id, sr.amount, ""))
    IN  IF ~Has(c.farmers, sender_id) THEN Panic(c, "ERR10_ACC_NOT_REGISTERED")
        ELSE with(sub_reward(c.farmers[sender_id], token_id, amount))

\* the loop that ends every stake change: the whole balance of each reward
\* token paid under the seed is sent out, the farmer in memory deciding which
RECURSIVE withdraw_seed_rewards(_, _, _, _, _)
withdraw_seed_rewards(c, farmer, sender_id, farm_ids, reward_tokens) ==
    LET with(farm_id, reward_token) ==
            withdraw_seed_rewards(
                IF reward_token \notin reward_tokens /\ Has(farmer.rewards, reward_token)
                THEN internal_execute_withdraw_reward(c, reward_token, sender_id, 0)
                ELSE c,
                farmer, sender_id, farm_ids \ {farm_id},
                reward_tokens \cup {reward_token})
        next(farm_id) == with(farm_id, c.farms[farm_id].terms.reward_token)
    IN  IF farm_ids = {} \/ c.err # NoErr THEN c
        ELSE next(CHOOSE x \in farm_ids : TRUE)

\* fault: a stake change leaves the reward balances on the farmer's record
stake_changed_keeping_rewards(c, c2, farmer, sender_id, seed_id) ==
    [c2 EXCEPT !.farmers = Put(@, sender_id, farmer)]

\* a stake change ends with the reward withdrawals; a panic drops the call
stake_changed(c, c2, farmer, sender_id, seed_id) ==
    LET with(c3) == IF c3.err # NoErr THEN Panic(c, c3.err) ELSE c3
    IN  with(withdraw_seed_rewards(c2, farmer, sender_id, c2.seeds[seed_id].farms, {}))

(***************************************************************************)
(* internals.rs: stake changes                                             *)
(***************************************************************************)
\* fault: the stake and the total are raised before the farmer is settled
internal_seed_deposit_stake_first(c, seed_id, sender_id, amount) ==
    LET with(c1) ==
            IF c1.err # NoErr THEN Panic(c, c1.err)
            ELSE stake_changed(c, c1, c1.farmers[sender_id], sender_id, seed_id)
        raised(farmer) ==
            with(internal_claim_user_reward_by_seed_id(
                     [c EXCEPT !.seeds = Put(@, seed_id,
                                             seed_add_amount(c.seeds[seed_id], amount)),
                               !.farmers = Put(@, sender_id, farmer)],
                     sender_id, seed_id))
    IN  IF ~Has(c.farmers, sender_id) THEN Panic(c, "ERR10_ACC_NOT_REGISTERED")
        ELSE IF ~Has(c.seeds, seed_id) THEN Panic(c, "ERR31_SEED_NOT_EXIST")
        ELSE raised(add_seed(c.farmers[sender_id], seed_id, amount))

\* Contract::internal_seed_deposit
internal_seed_deposit(c, seed_id, sender_id, amount) ==
    LET credit(c1, farmer) ==
            stake_changed(c,
                [c1 EXCEPT !.seeds = Put(@, seed_id,
                                         seed_add_amount(c1.seeds[seed_id], amount)),
                           !.farmers = Put(@, sender_id, farmer)],
                farmer, sender_id, seed_id)
        with(c1) ==
            IF c1.err # NoErr THEN Panic(c, c1.err)
            ELSE IF ~Has(c1.seeds, seed_id) THEN Panic(c, "ERR31_SEED_NOT_EXIST")
            ELSE credit(c1, add_seed(c1.farmers[sender_id], seed_id, amount))
    IN  with(internal_claim_user_reward_by_seed_id(c, sender_id, seed_id))

\* the snapshots of the seed's farms are dropped: [err, farmer, urps]
RECURSIVE remove_seed_rps(_, _, _, _)
remove_seed_rps(farmer, urps, farm_ids, chk) ==
    LET with(farm_id, r) ==
            IF r.err # NoErr THEN r
            ELSE remove_seed_rps(r.farmer, r.urps, farm_ids \ {farm_id}, chk)
        next(farm_id) == with(farm_id, remove_rps(farmer, urps, farm_id, chk))
    IN  IF farm_ids = {} THEN [err |-> NoErr, farmer |-> farmer, urps |-> urps]
        ELSE next(CHOOSE x \in farm_ids : TRUE)

\* what internal_seed_withdraw and internal_nft_withdraw do once the farmer in
\* memory is debited (ss): the seed total, the snapshots, the saves and the
\* reward withdrawals
finish_withdraw(c, c1, seed_id, sender_id, ss, amount) ==
    LET typed(c3, sa) ==
            IF c3.err # NoErr THEN c3 ELSE [c3 EXCEPT !.seed_type = sa.seed.seed_type]
        save(sa, rr) ==
            IF sa.err # NoErr THEN Panic(c, sa.err)
            ELSE IF rr.err # NoErr THEN Panic(c, rr.err)
            ELSE typed(stake_changed(c,
                           [c1 EXCEPT !.farmers = Put(@, sender_id, rr.farmer),
                                      !.user_rps[sender_id] = rr.urps,
                                      !.seeds = Put(@, seed_id, sa.seed)],
                           rr.farmer, sender_id, seed_id),
                       sa)
    IN  save(seed_sub_amount(c1.seeds[seed_id], amount),
             IF ss.remain = 0
             THEN remove_seed_rps(ss.farmer, c1.user_rps[sender_id],
                                  c1.seeds[seed_id].farms, c1.chk)
             ELSE [err |-> NoErr, farmer |-> ss.farmer,
                   urps |-> c1.user_rps[sender_id]])

\* fault: a withdrawal that fails the balance check keeps the settlement
internal_seed_withdraw_keeping_settlement(c, seed_id, sender_id, amount) ==
    LET debit(c1, ss) ==
            IF ss.err # NoErr THEN Panic(c1, ss.err)
            ELSE finish_withdraw(c, c1, seed_id, sender_id, ss, amount)
        with(c1) ==
            IF c1.err # NoErr THEN Panic(c, c1.err)
            ELSE IF ~Has(c1.seeds, seed_id) THEN Panic(c, "ERR31_SEED_NOT_EXIST")
            ELSE debit(c1, sub_seed(c1.farmers[sender_id], seed_id, amount))
    IN  with(internal_claim_user_reward_by_seed_id(c, sender_id, seed_id))

\* Contract::internal_seed_withdraw: c, with c.seed_type the seed's type
internal_seed_withdraw(c, seed_id, sender_id, amount) ==
    LET debit(c1, ss) ==
            IF ss.err # NoErr THEN Panic(c, ss.err)
            ELSE finish_withdraw(c, c1, seed_id, sender_id, ss, amount)
        with(c1) ==
            IF c1.err # NoErr THEN Panic(c, c1.err)
            ELSE IF ~Has(c1.seeds, seed_id) THEN Panic(c, "ERR31_SEED_NOT_EXIST")
            ELSE debit(c1, sub_seed(c1.farmers[sender_id], seed_id, amount))
    IN  with(internal_claim_user_reward_by_seed_id(c, sender_id, seed_id))

\* Contract::internal_nft_deposit: c, with c.ret the result
internal_nft_deposit(c, seed_id, sender_id, nft) ==
    LET returned(c3) == IF c3.err # NoErr THEN c3 ELSE [c3 EXCEPT !.ret = TRUE]
        \* farm_seed was read before the claim, which leaves the seed as it is
        credit(c1, farmer, eq) ==
            returned(stake_changed(c,
                [c1 EXCEPT !.farmers = Put(@, sender_id, farmer),
                           !.seeds = Put(@, seed_id,
                                         seed_add_amount(c.seeds[seed_id], eq.val))],
                farmer, sender_id, seed_id))
        claimed(c1, eq) ==
            IF c1.err # NoErr THEN Panic(c, c1.err)
            ELSE credit(c1,
                        add_seed(add_nft(c1.farmers[sender_id], seed_id, nft),
                                 seed_id, eq.val),
                        eq)
        with(eq) ==
            IF ~eq.some THEN [c EXCEPT !.ret = FALSE]
            ELSE claimed(internal_claim_user_reward_by_seed_id(c, sender_id, seed_id),
                         eq)
    IN  IF ~Has(c.seeds, seed_id) THEN Panic(c, "ERR31_SEED_NOT_EXIST")
        ELSE IF c.seeds[seed_id].seed_type # "NFT"
        THEN Panic(c, "Cannot deposit NFT to this farm")
        ELSE with(get_nft_balance_equivalent(c.nft_balance_seeds[seed_id], nft))

\* Contract::internal_nft_withdraw
internal_nft_withdraw(c, seed_id, sender_id, nft) ==
    LET debit(c1, ss, eq) ==
            IF ss.err # NoErr THEN Panic(c, ss.err)
            ELSE finish_withdraw(c, c1, seed_id, sender_id, ss, eq.val)
        taken(c1, sn, eq) ==
            IF ~sn.some \/ ~eq.some THEN Panic(c, "unwrap on a None value")
            ELSE debit(c1, sub_seed(sn.farmer, seed_id, eq.val), eq)
        with(c1) ==
            IF c1.err # NoErr THEN Panic(c, c1.err)
            ELSE IF ~Has(c1.seeds, seed_id) THEN Panic(c, "ERR31_SEED_NOT_EXIST")
            ELSE taken(c1, sub_nft(c1.farmers[sender_id], seed_id, nft),
                       IF Has(c1.nft_balance_seeds, seed_id)
                       THEN get_nft_balance_equivalent(c1.nft_balance_seeds[seed_id], nft)
                       ELSE [some |-> FALSE, val |-> 0])
    IN  with(internal_claim_user_reward_by_seed_id(c, sender_id, seed_id))

(***************************************************************************)
(* lib.rs: the entry points                                                *)
(***************************************************************************)
\* Contract::remove_user_rps_by_farm: c, with c.ret the result
remove_user_rps_by_farm(c, sender_id, farm_id) ==
    LET seed_id == parse_farm_id(farm_id)[1]
        with(r) ==
            IF r.err # NoErr THEN Panic(c, r.err)
            ELSE [c EXCEPT !.farmers = Put(@, sender_id, r.farmer),
                           !.user_rps[sender_id] = r.urps,
                           !.ret = TRUE]
    IN  IF ~Has(c.farmers, sender_id) THEN Panic(c, "ERR10_ACC_NOT_REGISTERED")
        ELSE IF ~Has(c.seeds, seed_id) THEN Panic(c, "ERR31_SEED_NOT_EXIST")
        ELSE IF farm_id \notin c.seeds[seed_id].farms
        THEN with(remove_rps(c.farmers[sender_id], c.user_rps[sender_id], farm_id,
                             c.chk))
        ELSE c

\* Contract::claim_reward_by_farm
claim_reward_by_farm(c, sender_id, farm_id) ==
    internal_claim_user_reward_by_farm_id(c, sender_id, farm_id)

\* Contract::claim_reward_by_seed
claim_reward_by_seed(c, sender_id, seed_id) ==
    internal_claim_user_reward_by_seed_id(c, sender_id, seed_id)

\* Contract::claim_reward_by_farm_and_withdraw
claim_reward_by_farm_and_withdraw(c, sender_id, farm_id) ==
    LET sent(c2) == IF c2.err # NoErr THEN Panic(c, c2.err) ELSE c2
        with(c1) ==
            IF c1.err # NoErr THEN c1
            ELSE IF ~Has(c1.farms, farm_id) THEN Panic(c, "unwrap on a None value")
            ELSE sent(internal_execute_withdraw_reward(c1,
                          c1.farms[farm_id].terms.reward_token, sender_id, 0))
    IN  with(internal_claim_user_reward_by_farm_id(c, sender_id, farm_id))

\* Contract::claim_reward_by_seed_and_withdraw
claim_reward_by_seed_and_withdraw(c, sender_id, seed_id) ==
    LET with(c1) ==
            IF c1.err # NoErr THEN c1
            ELSE IF ~Has(c1.seeds, seed_id) THEN Panic(c, "unwrap on a None value")
            ELSE stake_changed(c, c1, c1.farmers[sender_id], sender_id, seed_id)
    IN  with(internal_claim_user_reward_by_seed_id(c, sender_id, seed_id))

\* Contract::withdraw_reward; amount 0 stands for None
withdraw_reward(c, sender_id, token_id, amount) ==
    internal_execute_withdraw_reward(c, token_id, sender_id, amount)

\* fault: the failure callback stores the amount as the balance
callback_post_withdraw_reward_overwriting(c, token_id, sender_id, amount, failed) ==
    IF ~failed THEN c
    ELSE IF ~Has(c.farmers, sender_id) THEN Panic(c, "ERR10_ACC_NOT_REGISTERED")
    ELSE [c EXCEPT !.farmers[sender_id].rewards = Put(@, token_id, amount)]

\* Contract::callback_post_withdraw_reward
callback_post_withdraw_reward(c, token_id, sender_id, amount, failed) ==
    IF ~failed THEN c
    ELSE IF ~Has(c.farmers, sender_id) THEN Panic(c, "ERR10_ACC_NOT_REGISTERED")
    ELSE [c EXCEPT !.farmers =
              Put(@, sender_id, farmer_add_reward(c.farmers[sender_id], token_id, amount))]

\* Contract::withdraw_seed
withdraw_seed(c, sender_id, seed_id, amount) ==
    LET with(c1) ==
            IF c1.err # NoErr THEN c1
            ELSE IF c1.seed_type = "FT"
            THEN Schedule(c1, Promise("ft_seed", seed_id, sender_id, amount, ""))
            ELSE Panic(c, "Use withdraw_nft for this")
    IN  with(internal_seed_withdraw(c, seed_id, sender_id, amount))

\* Contract::withdraw_nft
withdraw_nft(c, sender_id, seed_id, nft) ==
    LET with(c1) ==
            IF c1.err # NoErr THEN c1
            ELSE Schedule(c1, Promise("nft", seed_id, sender_id, 0, nft))
    IN  with(internal_nft_withdraw(c, seed_id, sender_id, nft))

\* Contract::callback_post_withdraw_nft.  The farmer is read before the claim
\* and saved after it.
callback_post_withdraw_nft(c, seed_id, sender_id, nft, failed) ==
    LET claimed(c1, eq) ==
            IF c1.err # NoErr THEN Panic(c, c1.err)
            ELSE [c1 EXCEPT
                    !.farmers = Put(@, sender_id,
                        add_seed(add_nft(c.farmers[sender_id], seed_id, nft),
                                 seed_id, eq.val)),
                    !.seeds = Put(@, seed_id,
                                  seed_add_amount(c.seeds[seed_id], eq.val))]
        with(eq) ==
            IF ~eq.some THEN c
            ELSE claimed(internal_claim_user_reward_by_seed_id(c, sender_id, seed_id),
                         eq)
    IN  IF ~failed THEN c
        ELSE IF ~Has(c.farmers, sender_id) THEN Panic(c, "ERR10_ACC_NOT_REGISTERED")
        ELSE IF ~Has(c.seeds, seed_id) THEN Panic(c, "ERR31_SEED_NOT_EXIST")
        ELSE with(get_nft_balance_equivalent(c.nft_balance_seeds[seed_id], nft))

\* fault: the failure callback gives the stake back to the farmer only
callback_post_withdraw_ft_seed_farmer_only(c, seed_id, sender_id, amount, failed) ==
    LET with(c1) ==
            IF c1.err # NoErr THEN Panic(c, c1.err)
            ELSE IF ~Has(c1.seeds, seed_id) THEN Panic(c, "ERR31_SEED_NOT_EXIST")
            ELSE [c1 EXCEPT
                    !.farmers = Put(@, sender_id,
                                    add_seed(c1.farmers[sender_id], seed_id, amount))]
    IN  IF ~failed THEN c
        ELSE with(internal_claim_user_reward_by_seed_id(c, sender_id, seed_id))

\* Contract::callback_post_withdraw_ft_seed
callback_post_withdraw_ft_seed(c, seed_id, sender_id, amount, failed) ==
    LET with(c1) ==
            IF c1.err # NoErr THEN Panic(c, c1.err)
            ELSE IF ~Has(c1.seeds, seed_id) THEN Panic(c, "ERR31_SEED_NOT_EXIST")
            ELSE [c1 EXCEPT
                    !.seeds = Put(@, seed_id,
                                  seed_add_amount(c1.seeds[seed_id], amount)),
                    !.farmers = Put(@, sender_id,
                                    add_seed(c1.farmers[sender_id], seed_id, amount))]
    IN  IF ~failed THEN c
        ELSE with(internal_claim_user_reward_by_seed_id(c, sender_id, seed_id))

(***************************************************************************)
(* Entry points whose files (token_receiver.rs, owner.rs, storage_impl.rs, *)
(* view.rs) are not among the sources: modelled from the specification's   *)
(* exposed operations and from their calls in the tests of lib.rs.         *)
(***************************************************************************)
\* storage_deposit: registers the farmer
storage_deposit(c, account_id) ==
    IF Has(c.farmers, account_id) THEN c
    ELSE [c EXCEPT !.farmers = Put(@, account_id, FarmerNew)]

\* ft_on_transfer with an empty message: deposit_stake
ft_on_transfer_seed(c, sender_id, seed_id, amount) ==
    IF ~Has(c.seeds, seed_id) THEN Panic(c, "ERR31_SEED_NOT_EXIST")
    ELSE IF c.seeds[seed_id].seed_type # "FT" THEN Panic(c, "ERR33_INVALID_SEED_ID")
    ELSE internal_seed_deposit(c, seed_id, sender_id, amount)

\* ft_on_transfer with a farm id as message: deposit_reward
ft_on_transfer_reward(c, farm_id, token_id, amount) ==
    LET with(r) ==
            IF r.err # NoErr THEN Panic(c, r.err)
            ELSE IF ~r.some THEN Panic(c, "ERR43_INVALID_FARM_STATUS")
            ELSE [c EXCEPT !.farms = Put(@, farm_id, r.farm)]
    IN  IF ~Has(c.farms, farm_id) THEN Panic(c, "ERR41_FARM_NOT_EXIST")
        ELSE IF c.farms[farm_id].terms.reward_token # token_id
        THEN Panic(c, "ERR44_INVALID_FARM_REWARD")
        ELSE with(add_reward(c.farms[farm_id], amount, c.now))

\* nft_on_transfer: an NFT staked
nft_on_transfer(c, sender_id, seed_id, nft) ==
    internal_nft_deposit(c, seed_id, sender_id, nft)

\* force_clean_farm: sweep_ended_farm
force_clean_farm(c, farm_id) == internal_remove_farm_by_farm_id(c, farm_id)

\* get_unclaimed_reward: view_unclaimed, [err, val]
get_unclaimed_reward(c, account_id, farm_id) ==
    LET seed_id == parse_farm_id(farm_id)[1]
    IN  IF Has(c.farmers, account_id) /\ Has(c.seeds, seed_id) /\ Has(c.farms, farm_id)
        THEN view_farmer_unclaimed_reward(c.farms[farm_id],
                 get_rps(c.user_rps[account_id], farm_id),
                 GetOr(c.farmers[account_id].seeds, seed_id, 0),
                 c.seeds[seed_id].amount, c.now)
        ELSE [err |-> NoErr, val |-> 0]

\* fault: the accrual check commits what it computes
try_distribute_call_committing(c, farm_id) ==
    [c |-> [c EXCEPT !.farms[farm_id] =
                         distribute(@, c.seeds[@.terms.seed_id].amount, c.now).farm],
     ret |-> try_distribute(c.farms[farm_id],
                            c.seeds[c.farms[farm_id].terms.seed_id].amount, c.now)]

\* a call of Farm::try_distribute(&self) on a stored farm: [c, ret], the
\* contract as the call leaves it and what the call returns
try_distribute_call(c, farm_id) ==
    [c |-> c,
     ret |-> try_distribute(c.farms[farm_id],
                            c.seeds[c.farms[farm_id].terms.seed_id].amount, c.now)]

\* fault: the view settles the farmer
view_farmer_unclaimed_reward_call_settling(c, account_id, farm_id) ==
    [c |-> internal_claim_user_reward_by_farm_id(c, account_id, farm_id),
     ret |-> view_farmer_unclaimed_reward(c.farms[farm_id],
                 get_rps(c.user_rps[account_id], farm_id),
                 GetOr(c.farmers[account_id].seeds, c.farms[farm_id].terms.seed_id, 0),
                 c.seeds[c.farms[farm_id].terms.seed_id].amount, c.now)]

\* a call of Farm::view_farmer_unclaimed_reward(&self) for a farmer: [c, ret]
view_farmer_unclaimed_reward_call(c, account_id, farm_id) ==
    [c |-> c,
     ret |-> view_farmer_unclaimed_reward(c.farms[farm_id],
                 get_rps(c.user_rps[account_id], farm_id),
                 GetOr(c.farmers[account_id].seeds, c.farms[farm_id].terms.seed_id, 0),
                 c.seeds[c.farms[farm_id].terms.seed_id].amount, c.now)]

\* a call of Farm::can_be_removed(&self) on a stored farm: [c, ret]
can_be_removed_call(c, farm_id) ==
    [c |-> c,
     ret |-> can_be_removed(c.farms[farm_id],
                            c.seeds[c.farms[farm_id].terms.seed_id].amount, c.now)]

(***************************************************************************)
(* The state machine                                                       *)
(***************************************************************************)
Init ==
    /\ seeds = EmptyMap
    /\ farmers = EmptyMap
    /\ user_rps = [a \in Accounts |-> EmptyMap]
    /\ farms = EmptyMap
    /\ outdated_farms = EmptyMap
    /\ nft_balance_seeds = EmptyMap
    /\ promises = EmptyMap
    /\ now = 0
    /\ ever_staked = {}

\* the <<farmer, farm>> pairs with the farmer's stake in the farm's seed non-zero
StakedNow(fs, fms) ==
    {af \in (DOMAIN fs) \X (DOMAIN fms) :
        GetOr(fs[af[1]].seeds, fms[af[2]].terms.seed_id, 0) > 0}

\* the call returns (its changes are kept) or panics (they are dropped)
\* the promises of the bag that pay reward out (TRUE) or return stake (FALSE)
Pending(b, reward) ==
    BagCount([p \in {q \in DOMAIN b : (q.kind = "reward") = reward} |-> b[p]])

Commit(c) ==
    /\ c.err = NoErr => Pending(c.promises, TRUE) <= MaxPending
    /\ c.err = NoErr => Pending(c.promises, FALSE) <= MaxPending
    /\ c.err = NoErr => \A a \in DOMAIN c.farmers : c.farmers[a].rps_count >= -MaxWrap
    /\ IF c.err = NoErr
       THEN /\ seeds' = c.seeds
            /\ farmers' = c.farmers
            /\ user_rps' = c.user_rps
            /\ farms' = c.farms
            /\ outdated_farms' = c.outdated_farms
            /\ nft_balance_seeds' = c.nft_balance_seeds
            /\ promises' = c.promises
       ELSE UNCHANGED <<seeds, farmers, user_rps, farms, outdated_farms,
                        nft_balance_seeds, promises>>
    /\ ever_staked' = ever_staked \cup StakedNow(farmers', farms')
    /\ UNCHANGED now

\* seed tokens of an account that are on their way back to it
InFlight(a, seed_id) ==
    LET ps == {p \in DOMAIN promises :
                   p.kind = "ft_seed" /\ p.sender = a /\ p.key = seed_id}
        RECURSIVE Sum(_)
        Sum(S) == IF S = {} THEN 0
                  ELSE LET p == CHOOSE x \in S : TRUE
                       IN  p.amount * promises[p] + Sum(S \ {p})
    IN  Sum(ps)

\* what an account has staked
Staked(a, seed_id) ==
    IF Has(farmers, a) THEN GetOr(farmers[a].seeds, seed_id, 0) ELSE 0

Tick ==
    /\ now < MaxTime
    /\ now' = now + 1
    /\ UNCHANGED <<seeds, farmers, user_rps, farms, outdated_farms,
                   nft_balance_seeds, promises, ever_staked>>

StorageDeposit ==
    \E a \in Accounts :
        /\ ~Has(farmers, a)
        /\ Commit(storage_deposit(Contract(now, TRUE), a))

CreateSimpleFarm ==
    \E seed_id \in SeedIds, token \in Tokens, start_at \in StartAts,
       rps \in RewardsPerSession, interval \in SessionIntervals, is_nft \in BOOLEAN :
        /\ Has(seeds, seed_id) => seeds[seed_id].next_index < MaxFarms
        /\ Has(seeds, seed_id) => is_nft = (seeds[seed_id].seed_type = "NFT")
        /\ LET terms == [seed_id |-> seed_id, reward_token |-> token,
                         start_at |-> start_at, reward_per_session |-> rps,
                         session_interval |-> interval]
           IN  Commit(internal_add_farm(Contract(now, TRUE), terms, is_nft, NftTable))

DepositReward ==
    \E farm_id \in DOMAIN farms, amount \in RewardAmounts :
        /\ farms[farm_id].amount_of_reward + amount <= MaxReward
        /\ Commit(ft_on_transfer_reward(Contract(now, TRUE), farm_id,
                                        farms[farm_id].terms.reward_token, amount))

\* an account owns MaxStake tokens of a seed: staked, on their way back, or
\* in its wallet
DepositSeed ==
    \E a \in Accounts, seed_id \in SeedIds, amount \in StakeAmounts :
        /\ Staked(a, seed_id) + InFlight(a, seed_id) + amount <= MaxStake
        /\ Commit(ft_on_transfer_seed(Contract(now, TRUE), a, seed_id, amount))

\* an NFT is with the contract while it is staked or on its way back
NftHeld(nft) ==
    \/ \E a \in DOMAIN farmers : \E s \in DOMAIN farmers[a].nft_seeds :
           nft \in farmers[a].nft_seeds[s]
    \/ \E p \in DOMAIN promises : p.kind = "nft" /\ p.nft = nft

DepositNft ==
    \E a \in Accounts, seed_id \in SeedIds, nft \in NftTokens :
        /\ ~NftHeld(nft)
        /\ NftOwner[nft] = a
        /\ Commit(nft_on_transfer(Contract(now, TRUE), a, seed_id, nft))

WithdrawSeed ==
    \E a \in Accounts, seed_id \in SeedIds, amount \in StakeAmounts, chk \in BOOLEAN :
        Commit(withdraw_seed(Contract(now, chk), a, seed_id, amount))

WithdrawNft ==
    \E a \in Accounts, seed_id \in SeedIds, nft \in NftTokens, chk \in BOOLEAN :
        Commit(withdraw_nft(Contract(now, chk), a, seed_id, nft))

ClaimRewardByFarm ==
    \E a \in Accounts, farm_id \in FarmIds :
        Commit(claim_reward_by_farm(Contract(now, TRUE), a, farm_id))

ClaimRewardBySeed ==
    \E a \in Accounts, seed_id \in SeedIds :
        Commit(claim_reward_by_seed(Contract(now, TRUE), a, seed_id))

ClaimRewardByFarmAndWithdraw ==
    \E a \in Accounts, farm_id \in FarmIds :
        Commit(claim_reward_by_farm_and_withdraw(Contract(now, TRUE), a, farm_id))

ClaimRewardBySeedAndWithdraw ==
    \E a \in Accounts, seed_id \in SeedIds :
        Commit(claim_reward_by_seed_and_withdraw(Contract(now, TRUE), a, seed_id))

WithdrawReward ==
    \E a \in Accounts, token \in Tokens, amount \in WithdrawAmounts :
        Commit(withdraw_reward(Contract(now, TRUE), a, token, amount))

\* the callback of a finished transfer, [err, ...] as the handlers
run_callback(c, p, failed) ==
    CASE p.kind = "reward" ->
             callback_post_withdraw_reward(c, p.key, p.sender, p.amount, failed)
      [] p.kind = "ft_seed" ->
             callback_post_withdraw_ft_seed(c, p.key, p.sender, p.amount, failed)
      [] p.kind = "nft" ->
             callback_post_withdraw_nft(c, p.key, p.sender, p.nft, failed)

\* the host runs the callback of a finished transfer, once: a callback that
\* panics is not run again
Callback ==
    \E p \in DOMAIN promises, failed \in BOOLEAN :
        LET c0 == [Contract(now, TRUE) EXCEPT !.promises = Unschedule(promises, p)]
            c == run_callback(c0, p, failed)
        IN  Commit(IF c.err = NoErr THEN c ELSE c0)

RemoveUserRpsByFarm ==
    \E a \in Accounts, farm_id \in FarmIds, chk \in BOOLEAN :
        Commit(remove_user_rps_by_farm(Contract(now, chk), a, farm_id))

ForceCleanFarm ==
    \E farm_id \in FarmIds :
        Commit(force_clean_farm(Contract(now, TRUE), farm_id))

Next ==
    \/ Tick
    \/ StorageDeposit
    \/ CreateSimpleFarm
    \/ DepositReward
    \/ DepositSeed
    \/ DepositNft
    \/ WithdrawSeed
    \/ WithdrawNft
    \/ ClaimRewardByFarm
    \/ ClaimRewardBySeed
    \/ ClaimRewardByFarmAndWithdraw
    \/ ClaimRewardBySeedAndWithdraw
    \/ WithdrawReward
    \/ Callback
    \/ RemoveUserRpsByFarm
    \/ ForceCleanFarm

Spec == Init /\ [][Next]_vars

\* the block timestamp advances whatever the accounts do
FairSpec == Spec /\ WF_vars(Tick)

(***************************************************************************)
(* Properties                                                              *)
(***************************************************************************)
\* a farm's stake as a stored farmer map gives it
StakeOf(fs, a, seed_id) ==
    IF Has(fs, a) THEN GetOr(fs[a].seeds, seed_id, 0) ELSE 0

\* the seed's total stake
TotalOf(seed_id) == IF Has(seeds, seed_id) THEN seeds[seed_id].amount ELSE 0

\* the claim a settlement of farmer a against farm f makes in this state
ClaimNow(a, f) ==
    claim_user_reward(farms[f], get_rps(user_rps[a], f),
                      Staked(a, farms[f].terms.seed_id),
                      TotalOf(farms[f].terms.seed_id), now)

\* reward the farm paid out to farmers
ClaimedByFarmers(farm) == farm.amount_of_claimed - farm.amount_of_beneficiary

\* the farm as the step leaves it, in farms or among the outdated farms
FarmAfter(f) == IF f \in DOMAIN farms' THEN farms'[f] ELSE outdated_farms'[f]

Accounted(farm) ==
    farm.amount_of_reward = farm.last_distribution.undistributed
                            + farm.last_distribution.unclaimed
                            + farm.amount_of_claimed

\* C1: for every farm, running or removed, in every reachable state, the reward
\* added equals undistributed + unclaimed + claimed (the beneficiary's share
\* counted as claimed).
C1_RewardAccounted ==
    /\ \A f \in DOMAIN farms : Accounted(farms[f])
    /\ \A f \in DOMAIN outdated_farms : Accounted(outdated_farms[f])

\* a farm that was topped up, paid a farmer and paid the beneficiary
C1_Witness ==
    \E f \in DOMAIN farms :
        /\ ClaimedByFarmers(farms[f]) > 0
        /\ farms[f].amount_of_beneficiary > 0
        /\ farms[f].amount_of_reward \notin RewardAmounts

\* C2: no step lowers the committed rps of a farm.
C2_RpsNeverDecreases ==
    [][\A f \in DOMAIN farms :
           FarmAfter(f).last_distribution.rps >= farms[f].last_distribution.rps]_vars

\* C3: in every reachable state every snapshot a farmer holds for a farm is at
\* most the farm's committed rps, so that no settlement subtracts a snapshot
\* from a smaller rps.
C3_SnapshotAtMostRps ==
    \A a \in Accounts : \A f \in DOMAIN farms :
        /\ Has(user_rps[a], f) => user_rps[a][f] <= farms[f].last_distribution.rps
        /\ Has(farmers, a) => ClaimNow(a, f).err # "arithmetic operation overflow"

\* C4: in every reachable state, no settlement of any registered farmer against
\* any farm trips the ERR500 assertion: a positive claim is covered by the
\* farm's unclaimed reward.
C4_Err500NeverFires ==
    \A a \in DOMAIN farmers : \A f \in DOMAIN farms :
        ClaimNow(a, f).err # "ERR500"

\* a farm that paid a farmer before owes a farmer a positive claim now
C4_Witness ==
    \E a \in DOMAIN farmers : \E f \in DOMAIN farms :
        /\ ClaimedByFarmers(farms[f]) > 0
        /\ ClaimNow(a, f).err = NoErr
        /\ ClaimNow(a, f).claimed > 0

\* reward of a token held for a farmer: the balance on the farmer's record plus
\* the payouts on their way to the farmer
RewardDue(fs, ps, a, token) ==
    LET out == {p \in DOMAIN ps :
                    p.kind = "reward" /\ p.sender = a /\ p.key = token}
        RECURSIVE Sum(_)
        Sum(S) == IF S = {} THEN 0
                  ELSE LET p == CHOOSE x \in S : TRUE
                       IN  p.amount * ps[p] + Sum(S \ {p})
    IN  (IF Has(fs, a) THEN GetOr(fs[a].rewards, token, 0) ELSE 0) + Sum(out)

\* the step is one of the four stake changes: it changes the farmer's stake
\* and resolves no promise
StakeChange(a, seed_id) ==
    /\ StakeOf(farmers, a, seed_id) # StakeOf(farmers', a, seed_id)
    /\ BagCount(promises') >= BagCount(promises)

\* the step leaves every farm, the farmer's snapshots and the farmer's reward as
\* the settlement s of the pre-change state leaves them, and moves the
\* farmer's stake and the seed's total by the same delta
SettledFirst(a, seed_id, s) ==
    /\ s.err = NoErr
    /\ farms' = s.farms
    /\ \A f \in seeds[seed_id].farms :
           Has(user_rps'[a], f) =>
               user_rps'[a][f] = s.farms[f].last_distribution.rps
    /\ \A token \in Tokens :
           RewardDue(farmers', promises', a, token)
               = RewardDue(s.farmers, promises, a, token)
    /\ seeds'[seed_id].amount - seeds[seed_id].amount
           = StakeOf(farmers', a, seed_id) - StakeOf(farmers, a, seed_id)

\* C5: every step that changes a farmer's stake in a seed by a deposit or a
\* withdrawal (FT or NFT) has the effect of first settling the farmer against
\* every farm under the seed with the stake and the total of before the change,
\* and only then applying the delta to the stake and to the total.
C5_SettleBeforeStakeChange ==
    [][\A a \in Accounts : \A seed_id \in SeedIds :
           StakeChange(a, seed_id) =>
               SettledFirst(a, seed_id,
                   internal_claim_user_reward_by_seed_id(Contract(now, TRUE),
                                                         a, seed_id))]_vars

\* a farmer who staked next to another after a session had been paid out holds
\* the farm's rps as snapshot and earned nothing for that session
C5_Witness ==
    \E a \in DOMAIN farmers : \E b \in DOMAIN farmers : \E f \in DOMAIN farms :
        /\ a # b
        /\ Staked(a, farms[f].terms.seed_id) > 0
        /\ Staked(b, farms[f].terms.seed_id) > 0
        /\ Has(user_rps[a], f)
        /\ user_rps[a][f] = farms[f].last_distribution.rps
        /\ user_rps[a][f] > 0
        /\ RewardDue(farmers, promises, a, farms[f].terms.reward_token) = 0
        /\ RewardDue(farmers, promises, b, farms[f].terms.reward_token) > 0

StatusRank(status) ==
    CASE status = "Created" -> 0
      [] status = "Running" -> 1
      [] status = "Ended" -> 2
      [] status = "Cleared" -> 3

\* the status change of a farm in a step, allowed only forward: to Running by a
\* reward added to a Created farm, to Ended by a settle that leaves nothing
\* undistributed, to Cleared by the removal that moves the farm out of farms
Forward(old, new, removed) ==
    /\ StatusRank(new.status) >= StatusRank(old.status)
    /\ (old.status = "Created" /\ new.status # "Created") =>
           /\ new.status = "Running"
           /\ new.amount_of_reward > old.amount_of_reward
    /\ (old.status = "Running" /\ new.status # "Running") =>
           new.last_distribution.undistributed = 0
    /\ new.status = "Cleared" <=> removed
    /\ removed => new.last_distribution.unclaimed = 0

\* what the three status-changing functions do to a farm
StatusFunctions(farm, total_seeds) ==
    /\ \A amount \in RewardAmounts :
           add_reward(farm, amount, now).farm.status
               = IF farm.status = "Created" THEN "Running" ELSE farm.status
    /\ distribute(farm, total_seeds, now).farm.status
           \in IF farm.status = "Running" THEN {"Running", "Ended"}
               ELSE {farm.status}
    /\ move_to_clear(farm, total_seeds, now).farm.status
           = IF distribute(farm, total_seeds, now).farm.status = "Ended"
             THEN "Cleared" ELSE farm.status

\* C6: a farm's status only moves forward along Created, Running, Ended,
\* Cleared: to Running only by add_reward, to Ended only by a settle, to
\* Cleared only by move_to_clear (which settles a Running farm first), and a
\* removed farm stays as it is.
C6_StatusMovesForward ==
    [][/\ \A f \in DOMAIN farms :
              /\ Forward(farms[f], FarmAfter(f), f \notin DOMAIN farms')
              /\ StatusFunctions(farms[f], TotalOf(farms[f].terms.seed_id))
       /\ \A f \in DOMAIN outdated_farms :
              /\ f \in DOMAIN outdated_farms'
              /\ outdated_farms'[f] = outdated_farms[f]
              /\ outdated_farms[f].status = "Cleared"]_vars

\* a removed farm that went through all four statuses and paid farmers
C6_Witness ==
    \E f \in DOMAIN outdated_farms :
        /\ outdated_farms[f].status = "Cleared"
        /\ ClaimedByFarmers(outdated_farms[f]) > 0
        /\ outdated_farms[f].amount_of_beneficiary > 0

\* after the claim c of farmer a the snapshot for farm f is the farm's rps
SnapshotIsRps(c, a, f) ==
    c.err = NoErr =>
        /\ Has(c.user_rps[a], f)
        /\ c.user_rps[a][f] = c.farms[f].last_distribution.rps

\* C7: in every reachable state, a claim of a registered farmer against a farm,
\* by farm or by seed, leaves the farmer's snapshot for the farm equal to the
\* farm's rps after the claim's commit, also when the farmer's stake is 0 and
\* when the farm is not Running.
C7_ClaimSetsSnapshot ==
    \A a \in DOMAIN farmers : \A f \in DOMAIN farms :
        /\ SnapshotIsRps(claim_reward_by_farm(Contract(now, TRUE), a, f), a, f)
        /\ SnapshotIsRps(claim_reward_by_seed(Contract(now, TRUE), a,
                                              farms[f].terms.seed_id), a, f)

\* a farmer without stake holds the rps of an Ended farm as snapshot: only a
\* claim leaves a snapshot with a farmer whose stake is 0
C7_Witness ==
    \E a \in DOMAIN farmers : \E f \in DOMAIN farms :
        /\ Staked(a, farms[f].terms.seed_id) = 0
        /\ farms[f].status = "Ended"
        /\ Has(user_rps[a], f)
        /\ user_rps[a][f] = farms[f].last_distribution.rps
        /\ user_rps[a][f] > 0

\* C8: a step that takes a farmer's stake in a seed from above 0 to 0 leaves
\* the farmer without a snapshot for every farm that is under the seed.
C8_NoSnapshotAfterFullWithdraw ==
    [][\A a \in Accounts : \A seed_id \in SeedIds :
           (StakeOf(farmers, a, seed_id) > 0 /\ StakeOf(farmers', a, seed_id) = 0)
               => \A f \in seeds'[seed_id].farms : ~Has(user_rps'[a], f)]_vars

\* a farmer whose whole stake is on its way back, who was paid by a farm under
\* the seed and holds no snapshot for it
C8_Witness ==
    \E a \in DOMAIN farmers : \E f \in DOMAIN farms :
        /\ Staked(a, farms[f].terms.seed_id) = 0
        /\ \E p \in DOMAIN promises :
               p.kind \in {"ft_seed", "nft"} /\ p.sender = a
        /\ farms[f].last_distribution.rps > 0
        /\ RewardDue(farmers, promises, a, farms[f].terms.reward_token) > 0
        /\ ~Has(user_rps[a], f)

\* C9 as stated: a farmer holds a snapshot for a farm only if the farmer at
\* some time held stake in the farm's seed while the farm existed.
C9_SnapshotOnlyIfEverStaked ==
    \A a \in Accounts : \A f \in DOMAIN farms :
        Has(user_rps[a], f) => <<a, f>> \in ever_staked

\* C9 amended: a step gives a farmer a snapshot for a farm only if the farmer
\* is registered and the farm exists, and the new snapshot is the farm's rps:
\* the farmer was settled against the farm, with or without ever having staked.
C9_SnapshotOnlyBySettlement ==
    [][\A a \in Accounts : \A f \in FarmIds :
           (~Has(user_rps[a], f) /\ Has(user_rps'[a], f)) =>
               /\ Has(farmers, a)
               /\ Has(farms, f) /\ Has(farms', f)
               /\ user_rps'[a][f] = farms'[f].last_distribution.rps]_vars

\* a farmer holds a snapshot for a farm without ever having staked in its seed
C9_Witness ==
    \E a \in DOMAIN farmers : \E f \in DOMAIN farms :
        /\ Has(user_rps[a], f)
        /\ <<a, f>> \notin ever_staked
        /\ farms[f].last_distribution.rps > 0

\* what the view of farmer a's unclaimed reward in farm f shows in this state
ViewNow(a, f) ==
    view_farmer_unclaimed_reward(farms[f], get_rps(user_rps[a], f),
                                 Staked(a, farms[f].terms.seed_id),
                                 TotalOf(farms[f].terms.seed_id), now)

\* the unclaimed reward the farm holds once the rounds due by now are committed
UnclaimedDue(farm, total_seeds) ==
    LET with(td) == IF td.some THEN td.dis.unclaimed
                    ELSE farm.last_distribution.unclaimed
    IN  with(try_distribute(farm, total_seeds, now))

\* C10 as stated: the view of a farmer's unclaimed reward is at least 0 and at
\* most the unclaimed reward of the farm's committed distribution.
C10_ViewWithinCommitted ==
    \A a \in DOMAIN farmers : \A f \in DOMAIN farms :
        LET with(v) == /\ v.err = NoErr
                       /\ v.val >= 0
                       /\ v.val <= farms[f].last_distribution.unclaimed
        IN  with(ViewNow(a, f))

\* C10 amended: the view of a farmer's unclaimed reward never fails, is at
\* least 0 and is at most the unclaimed reward the farm holds once the rounds
\* due by now are counted in: the committed unclaimed plus the reward of the
\* rounds that are due and not yet committed.
C10_ViewWithinDue ==
    \A a \in DOMAIN farmers : \A f \in DOMAIN farms :
        LET with(v) == /\ v.err = NoErr
                       /\ v.val >= 0
                       /\ v.val <= UnclaimedDue(farms[f],
                                                TotalOf(farms[f].terms.seed_id))
        IN  with(ViewNow(a, f))

\* the view shows a farmer more than the farm's committed unclaimed reward
C10_Witness ==
    \E a \in DOMAIN farmers : \E f \in DOMAIN farms :
        LET with(v) == /\ v.err = NoErr
                       /\ v.val > farms[f].last_distribution.unclaimed
        IN  with(ViewNow(a, f))

\* deposit_stake followed at once by withdraw_stake of the same amount
RoundTrip(a, seed_id, amount, chk) ==
    LET with(c1) == IF c1.err # NoErr THEN c1
                    ELSE internal_seed_withdraw(c1, seed_id, a, amount)
    IN  with(internal_seed_deposit(Contract(now, chk), seed_id, a, amount))

\* the reward balances on the farmer's record are those of before
SameBalances(c, a) ==
    \A token \in Tokens :
        GetOr(c.farmers[a].rewards, token, 0) = GetOr(farmers[a].rewards, token, 0)

\* the round trip c leaves the farms, and the farmer's reward on record and in
\* flight, as one settlement s of the farmer at this time leaves them
AsSettledOnce(c, s, a) ==
    /\ s.err = NoErr
    /\ c.farms = s.farms
    /\ \A token \in Tokens :
           RewardDue(c.farmers, c.promises, a, token)
               = RewardDue(s.farmers, s.promises, a, token)

\* C11 as stated: from every reachable state, a deposit followed at once by
\* the withdrawal of the same amount leaves the owner's claimed balance of
\* every reward token as it was before the deposit.
C11_RoundTripKeepsBalance ==
    \A a \in DOMAIN farmers : \A seed_id \in DOMAIN seeds :
        \A amount \in StakeAmounts : \A chk \in BOOLEAN :
            LET with(c) == c.err = NoErr => SameBalances(c, a)
            IN  with(RoundTrip(a, seed_id, amount, chk))

\* C11 amended: the round trip earns nothing of its own: it leaves every farm,
\* and the owner's reward of every token (the balance on record plus the
\* payouts in flight), as a single settlement of the owner at that time leaves
\* them.
C11_RoundTripEarnsNothing ==
    \A a \in DOMAIN farmers : \A seed_id \in DOMAIN seeds :
        \A amount \in StakeAmounts : \A chk \in BOOLEAN :
            LET with(c) ==
                    c.err = NoErr =>
                        AsSettledOnce(c, internal_claim_user_reward_by_seed_id(
                                             Contract(now, chk), a, seed_id), a)
            IN  with(RoundTrip(a, seed_id, amount, chk))

\* a farmer who holds stake, with reward due from a farm, can make the round trip
C11_Witness ==
    \E a \in DOMAIN farmers : \E f \in DOMAIN farms :
        /\ Staked(a, farms[f].terms.seed_id) > 0
        /\ ClaimNow(a, f).err = NoErr
        /\ ClaimNow(a, f).claimed > 0
        /\ \E amount \in StakeAmounts :
               RoundTrip(a, farms[f].terms.seed_id, amount, TRUE).err = NoErr

\* the amount withdraw_reward takes: the amount asked, or with 0 the balance
Debited(balance, amount) == IF amount = 0 THEN balance ELSE amount

\* withdraw_reward c of the token by a: the balance is debited and a transfer of
\* exactly the debited amount is scheduled, nothing else changes
DebitThenTransfer(c, a, token, amount) ==
    LET with(balance, debited) ==
            /\ GetOr(c.farmers[a].rewards, token, 0) = balance - debited
            /\ c.promises = Schedule(Contract(now, TRUE),
                                     Promise("reward", token, a, debited, "")).promises
            /\ c.farms = farms /\ c.seeds = seeds /\ c.user_rps = user_rps
            /\ \A b \in DOMAIN farmers : b # a => c.farmers[b] = farmers[b]
            /\ c.farmers[a].seeds = farmers[a].seeds
    IN  c.err = NoErr =>
            /\ Has(farmers[a].rewards, token)
            /\ with(farmers[a].rewards[token],
                    Debited(farmers[a].rewards[token], amount))

\* the contract as the callback of the transfer p finds it
Resolving(p) == [Contract(now, TRUE) EXCEPT !.promises = Unschedule(promises, p)]

\* the farmers with the amount of p added to the sender's balance of the token
Recredited(p) ==
    [farmers EXCEPT ![p.sender].rewards =
         Put(@, p.key, GetOr(@, p.key, 0) + p.amount)]

\* C12: withdraw_claimed debits the balance and schedules the transfer of the
\* debited amount; in every reachable state, so whatever happened since the
\* debit, the callback of a reward transfer in flight changes nothing on
\* success, and on failure adds exactly the debited amount to the farmer's
\* balance of that token and changes nothing else.
C12_RewardWithdrawCompensated ==
    /\ \A a \in DOMAIN farmers : \A token \in Tokens : \A amount \in 0 .. MaxReward :
           DebitThenTransfer(withdraw_reward(Contract(now, TRUE), a, token, amount),
                             a, token, amount)
    /\ \A p \in DOMAIN promises :
           p.kind = "reward" =>
               /\ run_callback(Resolving(p), p, FALSE) = Resolving(p)
               /\ run_callback(Resolving(p), p, TRUE)
                      = [Resolving(p) EXCEPT !.farmers = Recredited(p)]

\* a transfer of reward to a farmer is in flight and the farmer, settled again
\* in between, holds a balance of the same token
C12_Witness ==
    \E p \in DOMAIN promises :
        /\ p.kind = "reward"
        /\ p.amount > 0
        /\ Has(farmers, p.sender)
        /\ GetOr(farmers[p.sender].rewards, p.key, 0) > 0

\* the failure callback r of the stake transfer p settled the owner with the
\* debited stake and total (s), then added the amount to both
Restaked(r, s, p) ==
    /\ r.err = NoErr
    /\ s.err = NoErr
    /\ r.farms = s.farms
    /\ r.user_rps = s.user_rps
    /\ r.farmers[p.sender].rewards = s.farmers[p.sender].rewards
    /\ StakeOf(r.farmers, p.sender, p.key)
           = StakeOf(farmers, p.sender, p.key) + p.amount
    /\ r.seeds[p.key].amount = seeds[p.key].amount + p.amount
    /\ \A b \in DOMAIN farmers : b # p.sender => r.farmers[b] = farmers[b]

\* C13: in every reachable state, so whatever happened since the withdrawal,
\* the callback of an FT stake transfer in flight changes nothing on success,
\* and on failure settles the owner against every farm under the seed with the
\* debited stake and total and then adds exactly the amount to the owner's
\* stake and to the seed's total.
C13_StakeWithdrawCompensated ==
    \A p \in DOMAIN promises :
        p.kind = "ft_seed" =>
            /\ run_callback(Resolving(p), p, FALSE) = Resolving(p)
            /\ Restaked(run_callback(Resolving(p), p, TRUE),
                        internal_claim_user_reward_by_seed_id(Resolving(p),
                                                              p.sender, p.key),
                        p)

\* the accrual a settle of the farm computes now with no stake in the seed
AccrualNoStake(farm) == try_distribute(farm, 0, now)

\* a settle of the farm now commits an accrual with no stake in the seed
CommitsNoStake(farm) ==
    /\ TotalOf(farm.terms.seed_id) = 0
    /\ AccrualNoStake(farm).err = NoErr
    /\ AccrualNoStake(farm).some
    /\ AccrualNoStake(farm).dis.rr # farm.last_distribution.rr

\* the reward the accrual releases
Released(farm) ==
    farm.last_distribution.undistributed - AccrualNoStake(farm).dis.undistributed

\* the settle d of the farm moved the amount to the beneficiary
ToBeneficiary(farm, d, amount) ==
    /\ d.amount_of_beneficiary = farm.amount_of_beneficiary + amount
    /\ d.amount_of_claimed = farm.amount_of_claimed + amount
    /\ d.last_distribution.unclaimed = 0

\* C14 as stated: a settle that commits an accrual while the seed's total stake
\* is 0 adds to amount_of_beneficiary and to amount_of_claimed exactly the
\* reward the commit releases, and leaves unclaimed at 0.
C14_ReleasedToBeneficiary ==
    \A f \in DOMAIN farms :
        CommitsNoStake(farms[f]) =>
            ToBeneficiary(farms[f], distribute(farms[f], 0, now).farm,
                          Released(farms[f]))

\* C14 amended: such a settle adds to amount_of_beneficiary and to
\* amount_of_claimed the reward the commit releases plus the unclaimed reward
\* the farm held before (what rounding left of earlier sessions), and leaves
\* unclaimed at 0.
C14_UnclaimedToBeneficiary ==
    \A f \in DOMAIN farms :
        CommitsNoStake(farms[f]) =>
            ToBeneficiary(farms[f], distribute(farms[f], 0, now).farm,
                          Released(farms[f]) + farms[f].last_distribution.unclaimed)

\* a farm that holds unclaimed reward and whose seed has no stake left is
\* about to commit a round that releases reward
C14_Witness ==
    \E f \in DOMAIN farms :
        /\ CommitsNoStake(farms[f])
        /\ Released(farms[f]) > 0
        /\ farms[f].last_distribution.unclaimed > 0
        /\ ClaimedByFarmers(farms[f]) > 0

\* C15: in every reachable state, the accrual computed for a farm whose seed
\* has total stake 0 has the rps of the farm's stored distribution.
C15_NoStakeKeepsRps ==
    \A f \in DOMAIN farms :
        (TotalOf(farms[f].terms.seed_id) = 0 /\ AccrualNoStake(farms[f]).some) =>
            AccrualNoStake(farms[f]).dis.rps = farms[f].last_distribution.rps

\* the farm as the commit a claim starts with leaves it
Committed(f) == distribute(farms[f], TotalOf(farms[f].terms.seed_id), now).farm

\* floor(stake * (rps after the commit - snapshot) / DENOM) of farmer a in farm f
Share(a, f) ==
    (Staked(a, farms[f].terms.seed_id)
        * (Committed(f).last_distribution.rps - get_rps(user_rps[a], f))) \div DENOM

\* the claim c of farmer a against farm f credited the amount and booked it
Credited(c, a, f, amount) ==
    /\ GetOr(c.farmers[a].rewards, farms[f].terms.reward_token, 0)
           = GetOr(farmers[a].rewards, farms[f].terms.reward_token, 0) + amount
    /\ c.farms[f].last_distribution.unclaimed
           = Committed(f).last_distribution.unclaimed - amount
    /\ c.farms[f].amount_of_claimed = Committed(f).amount_of_claimed + amount
    /\ c.farmers[a].seeds = farmers[a].seeds
    /\ c.seeds = seeds

\* C16: in every reachable state, a claim of a registered farmer against a
\* farm credits exactly floor(stake * (rps after the commit - snapshot) / DENOM)
\* to the farmer's balance of the farm's reward token, takes that amount from
\* the farm's unclaimed and adds it to amount_of_claimed (both counted from the
\* commit the claim starts with), and leaves the farmer's stake and the seed's
\* total as they are.
C16_ClaimCreditsShare ==
    \A a \in DOMAIN farmers : \A f \in DOMAIN farms :
        LET with(c) == c.err = NoErr => Credited(c, a, f, Share(a, f))
        IN  with(claim_reward_by_farm(Contract(now, TRUE), a, f))

\* a farmer whose claim goes through is due a share that the division rounds down
C16_Witness ==
    \E a \in DOMAIN farmers : \E f \in DOMAIN farms :
        /\ claim_reward_by_farm(Contract(now, TRUE), a, f).err = NoErr
        /\ Share(a, f) > 0
        /\ Share(a, f) * DENOM
               < Staked(a, farms[f].terms.seed_id)
                     * (Committed(f).last_distribution.rps - get_rps(user_rps[a], f))

\* the amounts the only staker of a seed deposits
SoleStakes == 1 .. 3

\* the session of the farm that time t falls in
SessionAt(farm, t) == (t - farm.terms.start_at) \div farm.terms.session_interval

\* farmer a can deposit into the seed of the running farm f as its only staker
SoleDeposit(a, f, amount) ==
    /\ farms[f].status = "Running"
    /\ now >= farms[f].terms.start_at
    /\ TotalOf(farms[f].terms.seed_id) = 0
    /\ internal_seed_deposit(Contract(now, TRUE), farms[f].terms.seed_id, a,
                             amount).err = NoErr

\* what farmer a views in farm f at time t after the deposit c
ViewAfter(c, a, f, amount, t) ==
    view_farmer_unclaimed_reward(c.farms[f], get_rps(c.user_rps[a], f),
                                 amount, amount, t).val

\* after the deposit c, every view of the farmer at a time j sessions later
\* that the undistributed reward covers is due(j)
ViewsAfter(c, a, f, amount, due(_)) ==
    \A t \in now .. MaxTime + 1 :
        LET j == SessionAt(farms[f], t) - SessionAt(farms[f], now)
        IN  c.farms[f].last_distribution.undistributed
                    >= j * farms[f].terms.reward_per_session
                => ViewAfter(c, a, f, amount, t) = due(j)

\* the deposit c counted the reward of the sessions before it to the beneficiary
EarlierToBeneficiary(c, f) ==
    c.farms[f].amount_of_beneficiary
        >= farms[f].amount_of_beneficiary + Released(farms[f])

EqualTopUps == 0 .. 2

\* the contract after farmers a and b have both added amount to their stake
BothDeposit(a, b, seed_id, amount) ==
    LET with(c1) == IF c1.err # NoErr THEN c1
                    ELSE internal_seed_deposit(c1, seed_id, b, amount)
    IN  IF amount = 0 THEN Contract(now, TRUE)
        ELSE with(internal_seed_deposit(Contract(now, TRUE), seed_id, a, amount))

\* in contract c, farmers a and b hold the same stake and all of the seed of farm f
EqualPair(c, a, b, f) ==
    /\ c.err = NoErr
    /\ a # b
    /\ StakeOf(c.farmers, a, c.farms[f].terms.seed_id) > 0
    /\ StakeOf(c.farmers, a, c.farms[f].terms.seed_id)
           = StakeOf(c.farmers, b, c.farms[f].terms.seed_id)
    /\ c.seeds[c.farms[f].terms.seed_id].amount
           = 2 * StakeOf(c.farmers, a, c.farms[f].terms.seed_id)
    /\ c.farms[f].status = "Running"

\* what farmer a views in farm f of contract c at time t
ViewIn(c, a, f, t) ==
    view_farmer_unclaimed_reward(c.farms[f], get_rps(c.user_rps[a], f),
                                 StakeOf(c.farmers, a, c.farms[f].terms.seed_id),
                                 c.seeds[c.farms[f].terms.seed_id].amount, t).val

\* what is left undistributed of farm f of contract c at time t
UndistributedIn(c, f, t) ==
    try_distribute(c.farms[f], c.seeds[c.farms[f].terms.seed_id].amount,
                   t).dis.undistributed

\* the reward farm f of contract c releases for the session that starts at t
ReleasedIn(c, f, t) ==
    UndistributedIn(c, f, t)
        - UndistributedIn(c, f, t + c.farms[f].terms.session_interval)

\* what farmer a views more in farm f of contract c after the session that
\* starts at t
GrowthIn(c, a, f, t) ==
    ViewIn(c, a, f, t + c.farms[f].terms.session_interval) - ViewIn(c, a, f, t)

\* the times from which a whole session of farm f of contract c lies ahead
SessionStarts(c, f) ==
    {t \in now .. MaxTime :
        /\ t >= c.farms[f].terms.start_at
        /\ (t - c.farms[f].terms.start_at) % c.farms[f].terms.session_interval = 0}

\* for two farmers who hold equal stake and all of the seed, ok(c, a, f, t)
\* holds of every session ahead, whatever they both add to their stake first
EqualPairs(ok(_, _, _, _)) ==
    \A a, b \in DOMAIN farmers : \A f \in DOMAIN farms :
        \A amount \in EqualTopUps :
            LET with(c) ==
                    EqualPair(c, a, b, f) =>
                        \A t \in SessionStarts(c, f) : ok(c, a, f, t)
            IN  with(BothDeposit(a, b, farms[f].terms.seed_id, amount))

\* the session releases an even reward that the truncated rps carries whole
CarriedWhole(c, a, f, t) ==
    /\ ReleasedIn(c, f, t) % 2 = 0
    /\ (ReleasedIn(c, f, t) * DENOM)
           % c.seeds[c.farms[f].terms.seed_id].amount = 0

AllFarms == {farms[f] : f \in DOMAIN farms} \cup
            {outdated_farms[f] : f \in DOMAIN outdated_farms}

\* the farm is running and has started
RunningStarted(farm) == farm.status = "Running" /\ now >= farm.terms.start_at

\* a settle of the farm now that leaves nothing undistributed ends the farm
SettleToZeroEnds(farm) ==
    LET with(d) ==
            (d.err = NoErr /\ d.farm.last_distribution.undistributed = 0) =>
                d.farm.status = "Ended"
    IN  with(distribute(farm, TotalOf(farm.terms.seed_id), now))

\* C19: in every reachable state, a settle of a running, started farm that
\* leaves undistributed at 0 leaves the farm Ended; an Ended or Cleared farm
\* has undistributed 0; and a Created farm has undistributed 0, unclaimed 0
\* and amount_of_reward 0.
C19_StatusMatchesUndistributed ==
    /\ \A f \in DOMAIN farms : RunningStarted(farms[f]) => SettleToZeroEnds(farms[f])
    /\ \A farm \in AllFarms :
           /\ farm.status \in {"Ended", "Cleared"} =>
                  farm.last_distribution.undistributed = 0
           /\ farm.status = "Created" =>
                  /\ farm.last_distribution.undistributed = 0
                  /\ farm.last_distribution.unclaimed = 0
                  /\ farm.amount_of_reward = 0

\* a running farm that holds unclaimed and undistributed reward is about to be
\* settled to 0
C19_Witness ==
    \E f \in DOMAIN farms :
        /\ RunningStarted(farms[f])
        /\ farms[f].last_distribution.undistributed > 0
        /\ farms[f].last_distribution.unclaimed > 0
        /\ distribute(farms[f], TotalOf(farms[f].terms.seed_id),
                      now).farm.status = "Ended"

\* the start times a farm is created with, other than 0 (which stands for the
\* time of the first reward)
LaterStarts == 1 .. MaxTime + 1

\* the total stakes can_be_removed is called with
TotalStakes == 0 .. 3

\* the running farm has not committed a distribution yet
NeverSettled(farm) ==
    /\ farm.status = "Running"
    /\ farm.last_distribution.rr = 0
    /\ farm.last_distribution.rps = 0
    /\ farm.last_distribution.unclaimed = 0
    /\ farm.last_distribution.undistributed = farm.amount_of_reward

\* the farms the contract holds, and as they are had they been created with a
\* later start
FarmsStartingLater ==
    AllFarms \cup {[farm EXCEPT !.terms.start_at = s] :
                       farm \in {x \in AllFarms : NeverSettled(x)},
                       s \in LaterStarts}

\* the sessions up to time t release all the farm has left undistributed
Exhausted(farm, t) ==
    farm.last_distribution.undistributed
        <= (SessionAt(farm, t) - farm.last_distribution.rr)
               * farm.terms.reward_per_session

\* when the farm can be removed at time t
Removable(farm, t) ==
    \/ farm.status = "Ended"
    \/ /\ farm.status = "Running"
       /\ t >= farm.terms.start_at
       /\ Exhausted(farm, t)

\* C20: in every reachable state and for every total stake passed in,
\* can_be_removed returns true exactly when the farm is Ended, or is Running
\* with now >= start_at and the accrual at the current time leaves
\* undistributed at 0; it returns false for Created and Cleared farms and for
\* running farms that have not started.
C20_CanBeRemoved ==
    \A farm \in FarmsStartingLater : \A total \in TotalStakes :
        LET with(r) ==
                /\ r.err = NoErr
                /\ r.val = Removable(farm, now)
                /\ farm.status \in {"Created", "Cleared"} => ~r.val
                /\ (farm.status = "Running" /\ now < farm.terms.start_at) => ~r.val
        IN  with(can_be_removed(farm, total, now))

\* a running farm that still holds undistributed reward can be removed, while
\* with a later start it could not
C20_Witness ==
    \E f \in DOMAIN farms : \E s \in LaterStarts :
        /\ NeverSettled(farms[f])
        /\ farms[f].last_distribution.undistributed > 0
        /\ can_be_removed(farms[f], TotalOf(farms[f].terms.seed_id), now).val
        /\ now < s
        /\ ~can_be_removed([farms[f] EXCEPT !.terms.start_at = s], 0, now).val

\* the call that ended as c left the stored state as it was
StateKept(c) ==
    /\ c.seeds = seeds
    /\ c.farmers = farmers
    /\ c.user_rps = user_rps
    /\ c.farms = farms
    /\ c.outdated_farms = outdated_farms
    /\ c.nft_balance_seeds = nft_balance_seeds
    /\ c.promises = promises

\* farm f is in the active store and can be removed now
CanRemove(f) ==
    /\ Has(farms, f)
    /\ Has(seeds, parse_farm_id(f)[1])
    /\ can_be_removed(farms[f], TotalOf(parse_farm_id(f)[1]), now).val

\* farm f after the last commit of its removal: a running farm is settled first
FinalCommit(f) ==
    IF farms[f].status = "Running"
    THEN distribute(farms[f], TotalOf(parse_farm_id(f)[1]), now).farm
    ELSE farms[f]

\* the removal c archived farm f as Cleared, its unclaimed reward counted to
\* the beneficiary
Swept(c, f) ==
    /\ c.err = NoErr
    /\ c.ret
    /\ ~Has(c.farms, f)
    /\ f \notin c.seeds[parse_farm_id(f)[1]].farms
    /\ Has(c.outdated_farms, f)
    /\ c.outdated_farms[f].status = "Cleared"
    /\ c.outdated_farms[f].last_distribution.unclaimed = 0
    /\ c.outdated_farms[f].amount_of_beneficiary
           = FinalCommit(f).amount_of_beneficiary
                 + FinalCommit(f).last_distribution.unclaimed

\* every archived farm is Cleared and holds no unclaimed or undistributed reward
ArchiveCleared ==
    \A f \in DOMAIN outdated_farms :
        /\ outdated_farms[f].status = "Cleared"
        /\ outdated_farms[f].last_distribution.unclaimed = 0
        /\ outdated_farms[f].last_distribution.undistributed = 0

\* C21: in every reachable state, the removal of a farm that can be removed
\* returns true and leaves the farm Cleared with unclaimed 0 in the archive,
\* out of the active store and of its seed's farm set, its
\* amount_of_beneficiary grown by exactly the unclaimed reward the farm held
\* after its final commit; the removal of any other farm id returns false and
\* changes no state; and every archived farm is Cleared with unclaimed 0 and
\* undistributed 0.
C21_RemovalSweeps ==
    /\ \A f \in FarmIds :
           LET with(c) ==
                   IF CanRemove(f) THEN Swept(c, f)
                   ELSE c.err = NoErr /\ ~c.ret /\ StateKept(c)
           IN  with(force_clean_farm(Contract(now, TRUE), f))
    /\ ArchiveCleared

\* a running farm that holds unclaimed reward can be removed, next to a farm
\* id that names no farm
C21_Witness ==
    /\ \E f \in FarmIds :
           /\ CanRemove(f)
           /\ farms[f].status = "Running"
           /\ FinalCommit(f).last_distribution.unclaimed > 0
    /\ \E f \in FarmIds : ~Has(farms, f)

\* the terms after a first reward deposit at time t
TermsStartedAt(terms, t) == [terms EXCEPT !.start_at = IF @ = 0 THEN t ELSE @]

\* a first reward deposit now into the farm, had it been created to start at s,
\* sets it Running and sets start_at only if s is 0
FirstDepositStarts(farm, s, amount) ==
    LET with(r) ==
            /\ r.err = NoErr
            /\ r.some
            /\ r.farm.status = "Running"
            /\ r.farm.terms = TermsStartedAt([farm.terms EXCEPT !.start_at = s], now)
    IN  with(add_reward([farm EXCEPT !.terms.start_at = s], amount, now))

\* the step keeps farm f, and changes its terms only by a first reward
\* deposit into the Created farm, which sets it Running
TermsKept(f) ==
    /\ f \in DOMAIN farms' \cup DOMAIN outdated_farms'
    /\ IF farms[f].status = "Created" /\ FarmAfter(f) # farms[f]
       THEN /\ FarmAfter(f).status = "Running"
            /\ FarmAfter(f).terms = TermsStartedAt(farms[f].terms, now)
       ELSE FarmAfter(f).terms = farms[f].terms

\* C22: the first reward deposit into a Created farm sets its status to
\* Running and sets start_at to the deposit time if it was 0, leaving it as it
\* was otherwise; no other step changes start_at or any other field of the
\* terms of a farm, active or archived.
C22_TermsFixedAfterStart ==
    [][/\ \A f \in DOMAIN farms : TermsKept(f)
       /\ \A f \in DOMAIN farms : \A s \in {0} \cup LaterStarts :
              \A amount \in RewardAmounts :
                  farms[f].status = "Created" =>
                      FirstDepositStarts(farms[f], s, amount)
       /\ \A f \in DOMAIN outdated_farms :
              /\ f \in DOMAIN outdated_farms'
              /\ outdated_farms'[f].terms = outdated_farms[f].terms]_vars

\* a farm whose first reward came after time 0 runs since then, and time has
\* passed
C22_Witness ==
    \E f \in DOMAIN farms :
        /\ farms[f].status = "Running"
        /\ farms[f].terms.start_at > 0
        /\ now > farms[f].terms.start_at
        /\ farms[f].last_distribution.rr > 0

\* the farm takes no more reward at time t
Rejects(farm, t) ==
    \/ farm.status \in {"Ended", "Cleared"}
    \/ /\ farm.status = "Running"
       /\ t >= farm.terms.start_at
       /\ Exhausted(farm, t)

\* add_reward ended as r: it added the amount to the farm and returned the new
\* undistributed
RewardAdded(r, farm, amount) ==
    /\ r.some
    /\ r.farm.last_distribution.undistributed
           = farm.last_distribution.undistributed + amount
    /\ r.farm.amount_of_reward = farm.amount_of_reward + amount
    /\ r.val = r.farm.last_distribution.undistributed

\* C23: in every reachable state, add_reward returns None and leaves the farm
\* as it is when the farm is Ended or Cleared, or is Running, has started and
\* the accrual at the current time leaves undistributed at 0; in every other
\* case (Created, Running and not started, Running and not exhausted) it adds
\* exactly the amount to undistributed and to amount_of_reward and returns the
\* new undistributed.
C23_AddRewardAcceptsOrRejects ==
    \A farm \in FarmsStartingLater : \A amount \in RewardAmounts :
        LET with(r) ==
                /\ r.err = NoErr
                /\ IF Rejects(farm, now) THEN ~r.some /\ r.farm = farm
                   ELSE RewardAdded(r, farm, amount)
        IN  with(add_reward(farm, amount, now))

\* a running farm that is exhausted but not settled takes no reward, while
\* with a later start it would
C23_Witness ==
    \E f \in DOMAIN farms : \E s \in LaterStarts : \E amount \in RewardAmounts :
        /\ NeverSettled(farms[f])
        /\ farms[f].last_distribution.undistributed > 0
        /\ ~add_reward(farms[f], amount, now).some
        /\ add_reward([farms[f] EXCEPT !.terms.start_at = s], amount, now).some

\* the call that ended as c aborted, and the state is as it was
Surfaced(c) == c.err # NoErr /\ StateKept(c)

\* the call that ended as c returned with no error, and the state is as it was
Ignored(c) == c.err = NoErr /\ StateKept(c)

\* the amounts a stake action is called with
StakeActionAmounts == StakeAmounts \cup WithdrawAmounts

\* the seed lists no stake value for the NFT
Unlisted(s, nft) ==
    Has(nft_balance_seeds, s) /\ ~Has(nft_balance_seeds[s], nft)

\* the NFT deposit that ended as c aborted or, if refusals count, was refused
\* with no error because the seed does not list the NFT
NftDepositEnds(c, s, nft, refusals) ==
    \/ Surfaced(c)
    \/ refusals /\ Unlisted(s, nft) /\ Ignored(c) /\ ~c.ret

\* every claim and every stake action of account a aborts, but for the NFT
\* deposits refused if refusals count
AllSurfaced(a, refusals) ==
    /\ \A f \in FarmIds :
           /\ Surfaced(claim_reward_by_farm(Contract(now, TRUE), a, f))
           /\ Surfaced(claim_reward_by_farm_and_withdraw(Contract(now, TRUE), a, f))
    /\ \A s \in SeedIds :
           /\ Surfaced(claim_reward_by_seed(Contract(now, TRUE), a, s))
           /\ Surfaced(claim_reward_by_seed_and_withdraw(Contract(now, TRUE), a, s))
           /\ \A amount \in StakeActionAmounts :
                  /\ Surfaced(ft_on_transfer_seed(Contract(now, TRUE), a, s, amount))
                  /\ Surfaced(withdraw_seed(Contract(now, TRUE), a, s, amount))
           /\ \A nft \in NftTokens :
                  /\ NftDepositEnds(nft_on_transfer(Contract(now, TRUE), a, s, nft),
                                    s, nft, refusals)
                  /\ Surfaced(withdraw_nft(Contract(now, TRUE), a, s, nft))

\* the claims of farmer a that name an unknown farm or seed all end as how(c)
UnknownClaims(a, how(_)) ==
    /\ \A f \in FarmIds \ DOMAIN farms :
           how(claim_reward_by_farm(Contract(now, TRUE), a, f))
    /\ \A s \in SeedIds \ DOMAIN seeds :
           how(claim_reward_by_seed(Contract(now, TRUE), a, s))

AskedAmounts == 0 .. 4

\* the claimed balance of farmer a in the token is less than the amount, or
\* there is no balance of the token
OverBalance(a, token, amount) ==
    \/ ~Has(farmers[a].rewards, token)
    \/ farmers[a].rewards[token] < amount

\* C25: in every reachable state, a stake withdrawal of a registered farmer
\* for more than the farmer's stake in the seed (or from a seed the farmer has
\* no stake in), and a withdrawal of claimed reward for more than the balance
\* (or of a token with no balance), abort, and the whole state is as before the
\* call, the farms, balances and snapshots that the settlement before the
\* balance check touches included.
C25_OverdrawAborts ==
    \A a \in DOMAIN farmers : \A amount \in AskedAmounts :
        /\ \A s \in DOMAIN seeds :
               amount > Staked(a, s) =>
                   Surfaced(withdraw_seed(Contract(now, TRUE), a, s, amount))
        /\ \A token \in Tokens :
               OverBalance(a, token, amount) =>
                   Surfaced(withdraw_reward(Contract(now, TRUE), a, token, amount))

\* a farmer with stake and a claimed balance is due reward that a settlement
\* would book
C25_Witness ==
    \E a \in DOMAIN farmers : \E f \in DOMAIN farms :
        /\ Staked(a, farms[f].terms.seed_id) > 0
        /\ seeds[farms[f].terms.seed_id].seed_type = "FT"
        /\ GetOr(farmers[a].rewards, farms[f].terms.reward_token, 0) > 0
        /\ ViewNow(a, f).val > 0
        /\ ~StateKept(claim_reward_by_seed(Contract(now, TRUE), a,
                                           farms[f].terms.seed_id))

\* after the call that ended as c, farmer a views 0 now in each of the farms
SettledViewsZero(c, a, fs) ==
    c.err = NoErr =>
        \A f \in fs \cap DOMAIN c.farms : ViewIn(c, a, f, now) = 0

\* C26: in every reachable state, right after a call that settles a farmer
\* against a farm (a claim by farm or by seed, with or without withdrawal, a
\* deposit or a withdrawal of stake or of an NFT), the farmer's view of the
\* unclaimed reward of the farm at the same time is 0.
C26_SettledViewsNothing ==
    \A a \in DOMAIN farmers :
        /\ \A f \in DOMAIN farms :
               /\ SettledViewsZero(claim_reward_by_farm(Contract(now, TRUE), a, f),
                                   a, {f})
               /\ SettledViewsZero(
                      claim_reward_by_farm_and_withdraw(Contract(now, TRUE), a, f),
                      a, {f})
        /\ \A s \in DOMAIN seeds :
               /\ SettledViewsZero(claim_reward_by_seed(Contract(now, TRUE), a, s),
                                   a, seeds[s].farms)
               /\ SettledViewsZero(
                      claim_reward_by_seed_and_withdraw(Contract(now, TRUE), a, s),
                      a, seeds[s].farms)
               /\ \A amount \in StakeActionAmounts :
                      /\ SettledViewsZero(
                             ft_on_transfer_seed(Contract(now, TRUE), a, s, amount),
                             a, seeds[s].farms)
                      /\ SettledViewsZero(
                             withdraw_seed(Contract(now, TRUE), a, s, amount),
                             a, seeds[s].farms)
               /\ \A nft \in NftTokens :
                      /\ ~Unlisted(s, nft) =>
                             SettledViewsZero(
                                 nft_on_transfer(Contract(now, TRUE), a, s, nft),
                                 a, seeds[s].farms)
                      /\ SettledViewsZero(
                             withdraw_nft(Contract(now, TRUE), a, s, nft),
                             a, seeds[s].farms)

\* a farmer who shares a seed with another views unclaimed reward that a claim
\* would settle and that a withdrawal of the stake would too
C26_Witness ==
    \E a \in DOMAIN farmers : \E f \in DOMAIN farms :
        /\ ViewNow(a, f).val > 0
        /\ Staked(a, farms[f].terms.seed_id) > 0
        /\ Staked(a, farms[f].terms.seed_id) < TotalOf(farms[f].terms.seed_id)
        /\ ClaimNow(a, f).err = NoErr
        /\ withdraw_seed(Contract(now, TRUE), a, farms[f].terms.seed_id, 1).err = NoErr

\* every claim and every stake action of farmer a now ends as ok(c)
EveryCallOf(a, ok(_)) ==
    /\ \A f \in DOMAIN farms :
           /\ ok(claim_reward_by_farm(Contract(now, TRUE), a, f))
           /\ ok(claim_reward_by_farm_and_withdraw(Contract(now, TRUE), a, f))
    /\ \A s \in DOMAIN seeds :
           /\ ok(claim_reward_by_seed(Contract(now, TRUE), a, s))
           /\ ok(claim_reward_by_seed_and_withdraw(Contract(now, TRUE), a, s))
           /\ \A amount \in StakeActionAmounts :
                  /\ ok(ft_on_transfer_seed(Contract(now, TRUE), a, s, amount))
                  /\ ok(withdraw_seed(Contract(now, TRUE), a, s, amount))
           /\ \A nft \in NftTokens :
                  /\ ok(nft_on_transfer(Contract(now, TRUE), a, s, nft))
                  /\ ok(withdraw_nft(Contract(now, TRUE), a, s, nft))

\* the call that ended as c left farmer b as before: the view of every farm,
\* the stake, the claimed balances and the snapshots
OtherKept(c, b) ==
    c.err = NoErr =>
        /\ \A f \in DOMAIN farms : ViewIn(c, b, f, now) = ViewNow(b, f).val
        /\ c.farmers[b] = farmers[b]
        /\ c.user_rps[b] = user_rps[b]

\* C27: in every reachable state, a claim, a stake deposit or a stake
\* withdrawal of farmer a leaves what any other farmer b views as unclaimed at
\* the same time in every farm as it was, and b's stake, snapshots and claimed
\* balances too.
C27_OthersUntouched ==
    \A a, b \in DOMAIN farmers :
        a # b =>
            LET ok(c) == OtherKept(c, b)
            IN  EveryCallOf(a, ok)

\* two farmers hold stake in a seed, both view unclaimed reward, and a claim
\* of one of them changes the farm
C27_Witness ==
    \E a, b \in DOMAIN farmers : \E f \in DOMAIN farms :
        /\ a # b
        /\ ViewNow(a, f).val > 0
        /\ ViewNow(b, f).val > 0
        /\ ClaimNow(a, f).err = NoErr
        /\ ClaimNow(a, f).farm.last_distribution.rr
               > farms[f].last_distribution.rr

\* farm id f is in the farm set of its seed
InSeedFarms(f) ==
    Has(seeds, parse_farm_id(f)[1]) /\ f \in seeds[parse_farm_id(f)[1]].farms

\* the call of remove_user_rps_by_farm by farmer a for farm id f that ended as
\* c removed the snapshot and returned true
SnapshotRemoved(c, a, f) ==
    /\ c.err = NoErr
    /\ c.ret
    /\ ~Has(c.user_rps[a], f)
    /\ \A g \in DOMAIN user_rps[a] \ {f} :
           Has(c.user_rps[a], g) /\ c.user_rps[a][g] = user_rps[a][g]

\* C28: in every reachable state, for a registered farmer and a farm id whose
\* seed exists, remove_user_rps_by_farm removes the farmer's snapshot for the
\* farm and returns true if the farm id is not in the seed's farm set, and
\* otherwise returns false and changes no state; in either build of the
\* rps_count arithmetic.
C28_RemoveRpsIffOutdated ==
    \A a \in DOMAIN farmers : \A f \in FarmIds : \A chk \in BOOLEAN :
        LET with(c) ==
                IF InSeedFarms(f) THEN c.err = NoErr /\ ~c.ret /\ StateKept(c)
                ELSE SnapshotRemoved(c, a, f)
        IN  Has(seeds, parse_farm_id(f)[1]) =>
                with(remove_user_rps_by_farm(Contract(now, chk), a, f))

\* the ids of the farms the contract holds, active or archived
IssuedIds == DOMAIN farms \cup DOMAIN outdated_farms

\* the terms a farm on the seed is created with
TermsOn(seed_id) ==
    {[seed_id |-> seed_id, reward_token |-> token, start_at |-> start_at,
      reward_per_session |-> rps, session_interval |-> interval] :
         token \in Tokens, start_at \in StartAts, rps \in RewardsPerSession,
         interval \in SessionIntervals}

\* a farm created now on the seed gets the seed's next index, 0 on a new seed,
\* and an id no farm holds
FreshId(seed_id) ==
    \A terms \in TermsOn(seed_id) : \A is_nft \in BOOLEAN :
        LET with(c) ==
                /\ c.err = NoErr
                /\ c.id = gen_farm_id(seed_id,
                                      IF Has(seeds, seed_id)
                                      THEN seeds[seed_id].next_index ELSE 0)
                /\ c.id \notin IssuedIds
                /\ Has(c.farms, c.id)
                /\ \A f \in DOMAIN farms : c.farms[f] = farms[f]
        IN  with(internal_add_farm(Contract(now, TRUE), terms, is_nft, NftTable))

\* every farm is stored under its own id, which is of an index its seed has
\* passed, and no id is both active and archived
IdsIssuedOnce ==
    /\ DOMAIN farms \cap DOMAIN outdated_farms = {}
    /\ \A f \in DOMAIN farms : farms[f].farm_id = f
    /\ \A f \in DOMAIN outdated_farms : outdated_farms[f].farm_id = f
    /\ \A f \in IssuedIds :
           /\ Has(seeds, parse_farm_id(f)[1])
           /\ parse_farm_id(f)[2] < seeds[parse_farm_id(f)[1]].next_index

\* C29: a farm is created with the id of its seed and the seed's next index,
\* which starts at 0 and never decreases on any step; in every reachable state
\* no id is held by two farms, active or archived, and a farm created now gets
\* an id that no farm holds, a removed one included.
C29_FarmIdsNeverReused ==
    [][/\ IdsIssuedOnce
       /\ \A s \in SeedIds : FreshId(s)
       /\ \A s \in DOMAIN seeds :
              Has(seeds', s) /\ seeds'[s].next_index >= seeds[s].next_index
       /\ \A f \in IssuedIds : f \in DOMAIN farms' \cup DOMAIN outdated_farms']_vars

\* a farm of the seed was removed and archived, and the seed has no active farm
C29_Witness ==
    \E f \in DOMAIN outdated_farms :
        /\ seeds[parse_farm_id(f)[1]].next_index > parse_farm_id(f)[2]
        /\ seeds[parse_farm_id(f)[1]].farms = {}
        /\ outdated_farms[f].amount_of_reward > 0

\* the session lengths a farm creation is called with
CreatedIntervals == 0 .. 1

\* the farm the creation c added runs its first accrual with no division by zero
FirstAccrualDivides(c) ==
    \A amount \in RewardAmounts :
        try_distribute(add_reward(c.farms[c.id], amount, now).farm, 1, now).err
            = NoErr

\* a farm created now with the session length is refused or has a positive one
CreatedWithSessions(seed_id, interval) ==
    \A terms \in TermsOn(seed_id) : \A is_nft \in BOOLEAN :
        LET with(c) ==
                c.err = NoErr =>
                    /\ c.farms[c.id].terms.session_interval > 0
                    /\ FirstAccrualDivides(c)
        IN  with(internal_add_farm(Contract(now, TRUE),
                                   [terms EXCEPT !.session_interval = interval],
                                   is_nft, NftTable))

\* C30: in every reachable state, every farm in the store has
\* terms.session_interval > 0, and a farm creation with any session length, 0
\* included, adds no farm with session length 0, so that the round computation
\* of the accrual does not divide by zero.
C30_SessionIntervalPositive ==
    /\ \A farm \in AllFarms : farm.terms.session_interval > 0
    /\ \A s \in SeedIds : \A interval \in CreatedIntervals :
           CreatedWithSessions(s, interval)

\* the times the accrual check is called at
CheckTimes == now .. MaxTime + 1

\* the accrual check of farm f at time t, and the check again on the contract
\* the first one leaves, return the same
SameTwice(f, t) ==
    LET again(r1) == try_distribute_call(r1.c, f).ret = r1.ret
    IN  again(try_distribute_call(Contract(t, TRUE), f))

ReadsKeep(f) ==
    /\ StateKept(try_distribute_call(Contract(now, TRUE), f).c)
    /\ StateKept(can_be_removed_call(Contract(now, TRUE), f).c)
    /\ \A a \in DOMAIN farmers :
           StateKept(view_farmer_unclaimed_reward_call(Contract(now, TRUE), a, f).c)

RemovableIn(fm, sm, t, f) ==
    /\ Has(fm, f)
    /\ can_be_removed(fm[f], sm[fm[f].terms.seed_id].amount, t).err = NoErr
    /\ can_be_removed(fm[f], sm[fm[f].terms.seed_id].amount, t).val

\* the sessions the undistributed reward of a farm still pays, a last one
\* that is not whole included
SessionsLeft(farm) ==
    (farm.last_distribution.undistributed + farm.terms.reward_per_session - 1)
        \div farm.terms.reward_per_session

\* the session boundary at which the undistributed reward of a farm is
\* exhausted
ExhaustedAt(farm) ==
    farm.terms.start_at
    + (farm.last_distribution.rr + SessionsLeft(farm)) * farm.terms.session_interval

\* farm f is running and its reward is exhausted at boundary b
RunsUntil(f, b) ==
    /\ Has(farms, f)
    /\ farms[f].status = "Running"
    /\ farms[f].terms.reward_per_session > 0
    /\ ExhaustedAt(farms[f]) = b

\* farm f can be removed, is removed, or was given reward that lasts beyond b
RemovableBy(f, b) ==
    \/ ~Has(farms, f)
    \/ RemovableIn(farms, seeds, now, f)
    \/ ExhaustedAt(farms[f]) > b

\* a farm that can be removed can be removed after the step, or is removed
StaysRemovable ==
    \A f \in DOMAIN farms :
        RemovableIn(farms, seeds, now, f)
            => ~Has(farms', f) \/ RemovableIn(farms', seeds', now', f)

\* C33: with a block timestamp that keeps advancing, a running farm with
\* reward_per_session > 0 can be removed at the latest at the session boundary
\* where its undistributed reward is exhausted, the last partial session
\* included (a later reward deposit moves the boundary); and a farm that can be
\* removed can be removed in every later state until it is removed: no reward
\* deposit, settlement or stake change makes can_be_removed false again.
C33_RemovableEventuallyAndForGood ==
    /\ \A f \in FarmIds : \A b \in 0 .. MaxTime :
           RunsUntil(f, b) ~> RemovableBy(f, b)
    /\ [][StaysRemovable]_vars

\* the block timestamp reached the boundary at which a running farm's
\* reward, with a last session that is not whole, is exhausted: the farm can
\* be removed before any settlement ends it
C33_Witness ==
    \E f \in DOMAIN farms :
        /\ RunsUntil(f, now)
        /\ now > farms[f].terms.start_at
        /\ farms[f].last_distribution.undistributed
               % farms[f].terms.reward_per_session # 0
        /\ RemovableIn(farms, seeds, now, f)

\* the rewards per session and session intervals the accrual is computed with
AccrualRewards == 1 .. 3
AccrualIntervals == 1 .. 2

\* the farms the contract holds, and as they are had they been created with
\* other terms
AccrualFarms ==
    FarmsStartingLater \cup
    {[farm EXCEPT !.terms.start_at = s, !.terms.reward_per_session = r,
                  !.terms.session_interval = i] :
         farm \in {x \in AllFarms : NeverSettled(x)},
         s \in LaterStarts, r \in AccrualRewards, i \in AccrualIntervals}

\* the reward the sessions from the stored round to the target round ask for
Wanted(farm, target) ==
    (target - farm.last_distribution.rr) * farm.terms.reward_per_session

\* the reward released up to the target round
ReleasedUpTo(farm, target) ==
    IF Wanted(farm, target) < farm.last_distribution.undistributed
    THEN Wanted(farm, target)
    ELSE farm.last_distribution.undistributed

\* the round reached when the reward released is less than the reward asked for
CappedRound(farm, released) ==
    farm.last_distribution.rr + released \div farm.terms.reward_per_session
    + (IF released % farm.terms.reward_per_session # 0 THEN 1 ELSE 0)

\* the round the accrual reaches
RoundUpTo(farm, target) ==
    IF Wanted(farm, target) > farm.last_distribution.undistributed
    THEN CappedRound(farm, farm.last_distribution.undistributed)
    ELSE target

\* the accrual d of the farm at time t is the one the algorithm defines
AccruesAt(farm, t, d) ==
    IF farm.status = "Running" /\ t >= farm.terms.start_at
    THEN /\ d.err = NoErr
         /\ d.some
         /\ d.dis.rr = RoundUpTo(farm, SessionAt(farm, t))
         /\ d.dis.unclaimed = farm.last_distribution.unclaimed
                                  + ReleasedUpTo(farm, SessionAt(farm, t))
         /\ d.dis.undistributed = farm.last_distribution.undistributed
                                      - ReleasedUpTo(farm, SessionAt(farm, t))
         /\ d.dis.rr <= SessionAt(farm, t)
         /\ d.dis.rr >= farm.last_distribution.rr
    ELSE d.err = NoErr /\ ~d.some

\* C34: for a Running farm with now >= start_at the accrual returns, with
\* target = floor((now - start_at) / session_interval) and released =
\* min((target - rr) * reward_per_session, undistributed): rr = target when not
\* capped, else rr + floor(released / reward_per_session), plus 1 when a
\* partial last session was paid; unclaimed increased and undistributed
\* decreased by released; the new rr is at most target and at least the stored
\* rr. For a farm that is not Running or has not started there is no new
\* distribution.
C34_AccrualAlgorithm ==
    \A farm \in AccrualFarms : \A t \in CheckTimes : \A total \in TotalStakes :
        AccruesAt(farm, t, try_distribute(farm, total, t))

\* an accrual that is capped and pays a last session that is not whole
C34_Witness ==
    \E f \in DOMAIN farms : \E t \in CheckTimes :
        /\ farms[f].status = "Running"
        /\ farms[f].last_distribution.rr > 0
        /\ Wanted(farms[f], SessionAt(farms[f], t))
               > farms[f].last_distribution.undistributed
        /\ farms[f].last_distribution.undistributed
               % farms[f].terms.reward_per_session # 0
        /\ try_distribute(farms[f], TotalOf(farms[f].terms.seed_id), t).dis.undistributed = 0

\* the payouts of reward in a bag of promises
RewardBag(b) == [p \in {q \in DOMAIN b : q.kind = "reward"} |-> b[p]]

\* the reward tokens the farms under seed s pay
TokensUnder(s) == {farms[f].terms.reward_token : f \in seeds[s].farms \cap DOMAIN farms}

\* the payouts pending, and one more for each of the tokens that farmer a has a
\* balance of on the record fs, of the whole balance
RECURSIVE PaidOut(_, _, _, _)
PaidOut(c, fs, a, tokens) ==
    LET next(token) ==
            PaidOut(IF Has(fs[a].rewards, token)
                    THEN Schedule(c, Promise("reward", token, a,
                                             fs[a].rewards[token], ""))
                    ELSE c,
                    fs, a, tokens \ {token})
    IN  IF tokens = {} THEN c ELSE next(CHOOSE x \in tokens : TRUE)

\* the stake change c of farmer a on seed s, which settled the farmer as st,
\* left no balance of a token paid under the seed and sent each such balance
\* once, and left the other balances as they were
BalancesSent(c, st, a, s) ==
    c.err = NoErr =>
        /\ st.err = NoErr
        /\ \A token \in TokensUnder(s) : ~Has(c.farmers[a].rewards, token)
        /\ \A token \in Tokens \ TokensUnder(s) :
               /\ Has(c.farmers[a].rewards, token) = Has(farmers[a].rewards, token)
               /\ GetOr(c.farmers[a].rewards, token, 0)
                      = GetOr(farmers[a].rewards, token, 0)
        /\ RewardBag(c.promises)
               = RewardBag(PaidOut(Contract(now, TRUE), st.farmers, a,
                                   TokensUnder(s)).promises)
        /\ seeds[s].farms = {} =>
               /\ c.farmers[a].rewards = farmers[a].rewards
               /\ RewardBag(c.promises) = RewardBag(promises)

\* every stake action of farmer a on seed s ends as ok(c), but for the deposit
\* of an NFT the seed does not list, which changes no stake
StakeChangesOf(a, s, ok(_)) ==
    /\ \A amount \in StakeActionAmounts :
           /\ ok(ft_on_transfer_seed(Contract(now, TRUE), a, s, amount))
           /\ ok(withdraw_seed(Contract(now, TRUE), a, s, amount))
    /\ \A nft \in NftTokens :
           /\ ~Unlisted(s, nft) => ok(nft_on_transfer(Contract(now, TRUE), a, s, nft))
           /\ ok(withdraw_nft(Contract(now, TRUE), a, s, nft))

RECURSIVE StakeSum(_, _)
StakeSum(as, s) ==
    IF as = {} THEN 0
    ELSE LET a == CHOOSE x \in as : TRUE
         IN  Staked(a, s) + StakeSum(as \ {a}, s)

\* C36: in every reachable state, with a stake withdrawal waiting for its
\* callback and after failure callbacks too, the total staked amount of a seed
\* is the sum over all farmers of their stake in the seed.
C36_TotalIsSumOfStakes ==
    \A s \in DOMAIN seeds : seeds[s].amount = StakeSum(DOMAIN farmers, s)

\* a farmer holds stake in a seed while another farmer's withdrawal of stake
\* from it waits for its callback
C36_Witness ==
    \E s \in DOMAIN seeds : \E a, b \in DOMAIN farmers :
        /\ a # b
        /\ Staked(b, s) > 0
        /\ seeds[s].amount = Staked(b, s)
        /\ \E p \in DOMAIN promises :
               p.kind \in {"ft_seed", "nft"} /\ p.key = s /\ p.sender = a

\* the reward of a token that the farms of the maps fm and ofm booked as
\* claimed by farmers
RECURSIVE BookedIn(_, _, _)
BookedIn(fm, fs, token) ==
    LET with(f) ==
            (IF fm[f].terms.reward_token = token THEN ClaimedByFarmers(fm[f]) ELSE 0)
            + BookedIn(fm, fs \ {f}, token)
    IN  IF fs = {} THEN 0 ELSE with(CHOOSE x \in fs : TRUE)

Booked(fm, ofm, token) ==
    BookedIn(fm, DOMAIN fm, token) + BookedIn(ofm, DOMAIN ofm, token)

\* the reward of a token held for the farmers: their balances on the records fs
\* and the payouts of the bag ps
RECURSIVE DueOf(_, _, _, _)
DueOf(fs, ps, as, token) ==
    LET with(a) == RewardDue(fs, ps, a, token) + DueOf(fs, ps, as \ {a}, token)
    IN  IF as = {} THEN 0 ELSE with(CHOOSE x \in as : TRUE)

\* the step ends the transfer p of reward
EndsPayout(p) == p.kind = "reward" /\ promises' = Unschedule(promises, p)

\* what the farms booked as claimed of the token grows in the step by what is
\* held for the farmers; the end of a payout books nothing and either keeps
\* what is held (the transfer failed and the amount is back on the balance) or
\* takes the amount paid from it (the transfer succeeded)
ClaimsCredited(token) ==
    LET with(booked, held) ==
            IF \E p \in DOMAIN promises : EndsPayout(p)
            THEN /\ booked = 0
                 /\ \E p \in DOMAIN promises :
                        /\ EndsPayout(p)
                        /\ held \in {0, IF p.key = token THEN -p.amount ELSE 0}
            ELSE booked = held
    IN  with(Booked(farms', outdated_farms', token)
                 - Booked(farms, outdated_farms, token),
             DueOf(farmers', promises', Accounts, token)
                 - DueOf(farmers, promises, Accounts, token))

\* C37: across all steps, the failure callbacks of token stake, NFT stake and
\* reward transfers included, what the farms book as claimed by farmers is
\* added to the farmers' claimed balances: for each reward token the sum over
\* the farms of amount_of_claimed - amount_of_beneficiary stays equal to the
\* sum over the farmers of the claimed balance plus the amounts debited for
\* transfers in flight or succeeded.
C37_ClaimsReachBalances == [][\A token \in Tokens : ClaimsCredited(token)]_vars

\* C38: in every reachable state, after the failure callbacks of NFT and token
\* stake withdrawals too, a farmer's rps_count is the number of snapshots the
\* farmer holds, so that remove_rps never takes rps_count below 0.
C38_RpsCountIsSnapshotCount ==
    \A a \in DOMAIN farmers :
        /\ farmers[a].rps_count = Cardinality(DOMAIN user_rps[a])
        /\ \A f \in DOMAIN user_rps[a] : \A chk \in BOOLEAN :
               /\ remove_rps(farmers[a], user_rps[a], f, chk).err = NoErr
               /\ remove_rps(farmers[a], user_rps[a], f, chk).farmer.rps_count >= 0

\* the claim a settlement of farmer a against farm f makes at time t
ClaimAt(a, f, t) ==
    claim_user_reward(farms[f], get_rps(user_rps[a], f),
                      Staked(a, farms[f].terms.seed_id),
                      TotalOf(farms[f].terms.seed_id), t)

\* what the view of farmer a's unclaimed reward in farm f shows at time t
ViewAt(a, f, t) ==
    view_farmer_unclaimed_reward(farms[f], get_rps(user_rps[a], f),
                                 Staked(a, farms[f].terms.seed_id),
                                 TotalOf(farms[f].terms.seed_id), t)

\* the view v shows what the claim cl credits, if the claim succeeds
ViewIsClaim(v, cl) == cl.err = NoErr => v.err = NoErr /\ v.val = cl.claimed

\* C39: in every reachable state, for every farm, every registered farmer and
\* every time from now on, whenever the claim at that time would succeed,
\* view_farmer_unclaimed_reward with the farmer's snapshot and stake and the
\* seed's total returns exactly the amount claim_user_reward would credit.
C39_ViewIsWhatClaimCredits ==
    \A a \in DOMAIN farmers : \A f \in DOMAIN farms : \A t \in CheckTimes :
        ViewIsClaim(ViewAt(a, f, t), ClaimAt(a, f, t))

\* a farmer with a snapshot above 0 and a part of the stake is credited reward
\* of a round that is due and not committed
C39_Witness ==
    \E a \in DOMAIN farmers : \E f \in DOMAIN farms :
        /\ get_rps(user_rps[a], f) > 0
        /\ Staked(a, farms[f].terms.seed_id) > 0
        /\ ClaimAt(a, f, now).err = NoErr
        /\ ClaimAt(a, f, now).claimed > 0
        /\ ClaimAt(a, f, now).farm.last_distribution.rr
               > farms[f].last_distribution.rr

\* the views of the farmers in as of their unclaimed reward in farm f, summed
RECURSIVE ViewSum(_, _)
ViewSum(as, f) ==
    LET with(a) == ViewNow(a, f).val + ViewSum(as \ {a}, f)
    IN  IF as = {} THEN 0 ELSE with(CHOOSE x \in as : TRUE)

\* a claim of farmer a by the id of an archived farm changes no state
ArchivedClaimsNothing(a, f) ==
    /\ ~Has(farms, f)
    /\ StateKept(claim_reward_by_farm(Contract(now, TRUE), a, f))
    /\ StateKept(claim_reward_by_farm_and_withdraw(Contract(now, TRUE), a, f))

\* the call that ended as c left the archived farms as they were
ArchiveKept(c) == c.err = NoErr => c.outdated_farms = outdated_farms

\* the removal c of farm f counted all the reward that was unclaimed, what the
\* farmers had accrued and not settled included, to the beneficiary, and
\* credited no farmer
UnsettledToBeneficiary(c, f) ==
    (c.err = NoErr /\ Has(c.outdated_farms, f)) =>
        /\ ~Has(c.farms, f)
        /\ f \notin c.seeds[farms[f].terms.seed_id].farms
        /\ c.outdated_farms[f].status = "Cleared"
        /\ c.outdated_farms[f].last_distribution.unclaimed = 0
        /\ c.outdated_farms[f].amount_of_beneficiary
               = farms[f].amount_of_beneficiary
                 + UnclaimedDue(farms[f], TotalOf(farms[f].terms.seed_id))
        /\ c.outdated_farms[f].amount_of_beneficiary
               >= farms[f].amount_of_beneficiary + ViewSum(DOMAIN farmers, f)
        /\ c.farmers = farmers
        /\ c.promises = promises

\* what holds of the archived farms and of a removal in a state
RemovedFarmsPayNoOne ==
    /\ \A f \in DOMAIN outdated_farms : \A a \in DOMAIN farmers :
           ArchivedClaimsNothing(a, f)
    /\ \A a \in DOMAIN farmers : EveryCallOf(a, ArchiveKept)
    /\ \A f \in DOMAIN farms :
           UnsettledToBeneficiary(force_clean_farm(Contract(now, TRUE), f), f)

\* the step leaves every archived farm archived and as it was
ArchivedForGood ==
    \A f \in DOMAIN outdated_farms :
        /\ Has(outdated_farms', f)
        /\ outdated_farms'[f] = outdated_farms[f]
        /\ ~Has(farms', f)

\* C40: once a farm is removed (Cleared and archived) no later step credits a
\* farmer from it: the archived farm never changes again, a claim by its farm
\* id changes no state, and a settlement of its seed leaves it as it is; and a
\* removal counts the reward that farmers with stake had accrued in the farm
\* and not settled in amount_of_beneficiary, crediting no farmer.
C40_RemovedFarmPaysNoOne ==
    /\ []RemovedFarmsPayNoOne
    /\ [][ArchivedForGood]_vars

\* a farm that a farmer views unclaimed reward in is removed
C40_Witness ==
    \E f \in DOMAIN farms : \E a \in DOMAIN farmers :
        /\ ViewNow(a, f).val > 0
        /\ force_clean_farm(Contract(now, TRUE), f).err = NoErr
        /\ Has(force_clean_farm(Contract(now, TRUE), f).outdated_farms, f)

====
